---------------------------- MODULE Spec2Model ----------------------------
(***************************************************************************)
(* A model of dns_audit: the root index and delegation walker (root.rs),   *)
(* the per-domain audit (monitor.rs) and the audit executor (main.rs).     *)
(*                                                                         *)
(* Strings are sequences of one-character strings, so that split_name,     *)
(* eq_ignore_ascii_case and the trailing-dot handling are computed as the  *)
(* code computes them.                                                     *)
(***************************************************************************)
EXTENDS Integers, Sequences, FiniteSets, TLC

VARIABLES
    root_addr,   \* Root.root_addr: zone name -> NameServersForZone
    call,        \* the walker call in progress and what it returned
    learned,     \* zones the walker has inserted since construction
    audit,       \* one run of Monitor::test: its position and its locals
    args,        \* main: the command line (watch, all, thread_ct) and the targets read
    main,        \* main: the main thread's position, the pass, the exit status
    requests,    \* main: the pre-sliced lists, one per worker
    workers,     \* main: each worker thread's position in its list and its result
    code,        \* main: the exit code shared under a mutex
    results,     \* main: the results of the pass, shared under a mutex
    history,     \* every audit run so far: pass, worker, target, success
    zone,        \* Root.zone.records: the records of the root zone file, parsed
    create,      \* Root::create: its position
    parse,       \* Zone::create: the token lines, __origin, the loop index, origin, ttl
    perf,        \* Root::performance_test: its position, its threads, what they measured
    tokenizer,   \* ZoneLines::get_record_tokens: the bytes of the file and its locals
    text,        \* a string put through ZoneLines::escape and ZoneLines::unescape
    cmdline,     \* main: what the command line and the files it names hold
    sender,      \* query::Sender::query: its position, the bytes sent and received, its lists
    header,      \* a query::Header and the bytes Header::write gives for it
    split,       \* a domain name handed to Root::split_name and the labels returned
    question,    \* query::Question::write: the host, the loop's counters, the bytes written
    qname        \* query::read_qname: the buffer, the cursors, the name read so far

rootVars == <<root_addr, call, learned>>
auditVars == <<audit>>
mainVars == <<args, main, requests, workers, code, results, history>>
fileVars == <<zone, create, parse>>
perfVars == <<perf>>
tokVars == <<tokenizer, text>>
queryVars == <<sender, header>>
startVars == <<cmdline, split>>
wireVars == <<question, qname>>
vars == <<root_addr, call, learned, audit, args, main, requests, workers, code, results,
          history, zone, create, parse, perf, tokenizer,
          text, cmdline, sender, header, split, question, qname>>

-----------------------------------------------------------------------------
(* Bounds of the model *)

\* Longest domain name, in labels, handed to the walker.
MaxLabels == 3
\* How many zones the walker may learn by referral in one run of the model.
MaxLearned == 1

-----------------------------------------------------------------------------
(* Strings *)

BSL == "\\"
DOT == "."

\* u8::to_ascii_lowercase on the letters the model uses
ToAsciiLower(c) ==
    CASE c = "A" -> "a"
      [] c = "B" -> "b"
      [] c = "C" -> "c"
      [] c = "N" -> "n"
      [] c = "O" -> "o"
      [] c = "G" -> "g"
      [] c = "H" -> "h"
      [] c = "I" -> "i"
      [] c = "L" -> "l"
      [] c = "M" -> "m"
      [] c = "R" -> "r"
      [] c = "S" -> "s"
      [] c = "T" -> "t"
      [] c = "X" -> "x"
      [] OTHER -> c

\* str::eq_ignore_ascii_case
EqIgnoreAsciiCase(s, t) ==
    /\ Len(s) = Len(t)
    /\ \A i \in 1..Len(s) : ToAsciiLower(s[i]) = ToAsciiLower(t[i])

\* str::ends_with(".")
EndsWithDot(s) == Len(s) > 0 /\ s[Len(s)] = DOT

-----------------------------------------------------------------------------
(* Root::split_name *)

\* The regex (([^\\])|(^))\. tried at position p (1-based): the length of
\* the match there, 0 when there is none.  The first alternative (a
\* character other than a backslash, then a dot) is preferred.
DelimMatchLen(s, p) ==
    IF p + 1 <= Len(s) /\ s[p] # BSL /\ s[p + 1] = DOT THEN 2
    ELSE IF p = 1 /\ Len(s) >= 1 /\ s[1] = DOT THEN 1
    ELSE 0

\* Regex::find_iter: the leftmost match starting at or after `from`; 0 is none.
DelimNextMatch(s, from) ==
    LET ps == {p \in from..Len(s) : DelimMatchLen(s, p) > 0}
    IN  IF ps = {} THEN 0 ELSE CHOOSE p \in ps : \A q \in ps : p <= q

\* The loop over the matches: `last` is the number of characters consumed.
RECURSIVE SplitLoop(_, _)
SplitLoop(s, last) ==
    LET p == DelimNextMatch(s, last + 1)
    IN  IF p = 0 THEN [spl |-> <<>>, last |-> last]
        ELSE LET n    == DelimMatchLen(s, p)
                 head == SubSeq(s, last + 1, p - 1)
                 piece == IF n = 2 /\ s[p] # BSL THEN Append(head, s[p]) ELSE head
                 rest == SplitLoop(s, p - 1 + n)
             IN  [spl |-> <<piece>> \o rest.spl, last |-> rest.last]

\* split_name of a non-empty domain name: every piece gets a trailing dot.
split_name(domain_name) ==
    LET r   == SplitLoop(domain_name, 0)
        spl == IF r.last < Len(domain_name) - 1
               THEN Append(r.spl, SubSeq(domain_name, r.last + 1, Len(domain_name)))
               ELSE r.spl
    IN  [i \in 1..Len(spl) |-> Append(spl[i], DOT)]


-----------------------------------------------------------------------------
(* The root index: Root.root_addr, a map from zone name to its entry *)

\* Option<Duration>::None
NoSpeed == [some |-> FALSE, v |-> 0]

\* struct NameServer
NameServer(server_name, ip) == [server_name |-> server_name, ip |-> ip, speed |-> NoSpeed]

\* struct NameServersForZone
NameServersForZone(zone_name, servers) == [zone_name |-> zone_name, servers |-> servers]

NoEntry == NameServersForZone(<<>>, <<>>)

\* Result<Arc<RwLock<NameServersForZone>>, String>
Ok(entry) == [ok |-> TRUE, entry |-> entry, err |-> ""]
Err(msg) == [ok |-> FALSE, entry |-> NoEntry, err |-> msg]

\* HashMap::get(&_zone_name).is_some(): String keys compare byte for byte
HasZone(root, zone_name) == zone_name \in DOMAIN root

\* HashMap::insert
InsertZone(root, zone_name, entry) ==
    [k \in DOMAIN root \cup {zone_name} |-> IF k = zone_name THEN entry ELSE root[k]]

-----------------------------------------------------------------------------
(* Root::get_nameservers *)

\* The loop over name_split.iter().rev(): i is the label looked at and
\* zone_name the deepest zone found so far; the loop breaks at the first
\* candidate that is no key of the index.
\* The loop with `continue` in place of `break`: a candidate that is no
\* key is skipped and the walk goes on.
RECURSIVE GetNameserversLoopSkipsMissing(_, _, _, _)
GetNameserversLoopSkipsMissing(root, name_split, i, zone_name) ==
    IF i = 0 THEN zone_name
    ELSE LET _zone_name == name_split[i] \o zone_name
         IN  IF HasZone(root, _zone_name)
             THEN GetNameserversLoopSkipsMissing(root, name_split, i - 1, _zone_name)
             ELSE GetNameserversLoopSkipsMissing(root, name_split, i - 1, zone_name)

RECURSIVE GetNameserversLoop(_, _, _, _)
GetNameserversLoop(root, name_split, i, zone_name) ==
    IF i = 0 THEN zone_name
    ELSE LET _zone_name == name_split[i] \o zone_name
         IN  IF HasZone(root, _zone_name)
             THEN GetNameserversLoop(root, name_split, i - 1, _zone_name)
             ELSE zone_name

\* get_nameservers with the root zone as the candidate tried first.
get_nameservers_root_first(root, domain_name) ==
    LET name_split == split_name(domain_name)
        zone_name  == GetNameserversLoop(root, name_split, Len(name_split), <<>>)
    IN  IF zone_name # <<>> THEN Ok(root[zone_name])
        ELSE IF HasZone(root, <<DOT>>) THEN Ok(root[<<DOT>>])
        ELSE Err("Did not find the zone")

get_nameservers(root, domain_name) ==
    LET name_split == split_name(domain_name)
        zone_name  == GetNameserversLoop(root, name_split, Len(name_split), <<>>)
    IN  IF zone_name # <<>> THEN Ok(root[zone_name])
        ELSE Err("Did not find the zone")


-----------------------------------------------------------------------------
(* What the network and the OS resolver answer: inputs of the operations *)

\* A resource record on the wire: its type, its owner name and, for an NS
\* record, its target, both as the labels the message holds; for an A or
\* AAAA record the RDATA is the address.
WireRR(record_type, owner, rdata) ==
    [record_type |-> record_type, owner |-> owner, rdata |-> rdata]

\* read_qname on a name made of these labels: the labels joined by dots,
\* with no dot after the last one (the root name reads as the empty string).
RECURSIVE QnameOfLabels(_)
QnameOfLabels(labels) ==
    IF labels = <<>> THEN <<>>
    ELSE IF Len(labels) = 1 THEN labels[1]
    ELSE labels[1] \o <<DOT>> \o QnameOfLabels(Tail(labels))

\* RDATANameRR::from_wire: the name read, forced to end with a dot.
NameRRFromWire(labels) ==
    LET name == QnameOfLabels(labels)
    IN  IF EndsWithDot(name) THEN name ELSE Append(name, DOT)

\* rr::create_from_type: the RDATA struct a record type gets.
create_from_type(record_type) ==
    CASE record_type = "A" -> "RDATAa"
      [] record_type = "AAAA" -> "RDATAaaaa"
      [] record_type \in {"NS", "CNAME", "DNAME"} -> "RDATANameRR"
      [] record_type = "MX" -> "RDATAmx"
      [] record_type = "TXT" -> "RDATAtxt"
      [] record_type = "SOA" -> "RDATAsoa"
      [] record_type = "DNSKEY" -> "RDATAdnskey"
      [] record_type = "DS" -> "RDATAds"
      [] OTHER -> "RDATAgeneric"

\* ZoneRecord::create_from_wire: name.fqdn is the owner as read_qname
\* returns it; the RDATA is read by the struct of the record's type.
create_from_wire(w) ==
    [record_type |-> w.record_type,
     owner       |-> QnameOfLabels(w.owner),
     rdata_type  |-> create_from_type(w.record_type),
     rdata       |-> IF create_from_type(w.record_type) = "RDATANameRR"
                     THEN NameRRFromWire(w.rdata) ELSE w.rdata]

\* Sender::read_record: a section of the reply, decoded record by record.
read_record(section) == [i \in 1..Len(section) |-> create_from_wire(section[i])]

\* dns_lookup::lookup_host: the addresses of a host name.  An Err and an
\* empty list are one outcome to every caller (no address to iterate).
lookup_host(net, name) == IF name \in DOMAIN net.host THEN net.host[name] ELSE <<>>

\* One query sent: Sender::new(ip).query(host, query_type)
Query(ip, host, query_type) == [ip |-> ip, host |-> host, qtype |-> query_type]

-----------------------------------------------------------------------------
(* Root::get_nameservers_and_resolve *)

\* The glue of one authority NS record: a Nameserver for every A or AAAA
\* record of the additional section whose owner equals the NS target,
\* ASCII case-insensitively, in the order of the additional section.
RECURSIVE ReferralGlue(_, _)
ReferralGlue(additional, target) ==
    IF additional = <<>> THEN <<>>
    ELSE LET addrrec == Head(additional)
             rest    == ReferralGlue(Tail(additional), target)
         IN  IF addrrec.record_type \in {"A", "AAAA"}
                /\ EqIgnoreAsciiCase(addrrec.owner, target)
             THEN <<NameServer(addrrec.owner, addrrec.rdata)>> \o rest
             ELSE rest

\* The loop over sender.authority: the servers pushed from glue, and
\* needs_ip, the names pushed for the NS records that had no glue.
RECURSIVE ReferralAuthority(_, _)
ReferralAuthority(authority, additional) ==
    IF authority = <<>> THEN [servers |-> <<>>, needs_ip |-> <<>>]
    ELSE LET rec  == Head(authority)
             rest == ReferralAuthority(Tail(authority), additional)
         IN  IF rec.record_type = "NS"
             THEN LET glue == IF rec.rdata_type = "RDATANameRR"
                              THEN ReferralGlue(additional, rec.rdata) ELSE <<>>
                  IN  IF glue # <<>>
                      THEN [servers |-> glue \o rest.servers, needs_ip |-> rest.needs_ip]
                      ELSE [servers |-> rest.servers,
                            needs_ip |-> <<rec.owner>> \o rest.needs_ip]
             ELSE rest

\* The loop over needs_ip: a Nameserver for every address the OS resolver
\* returns for the name.
RECURSIVE ReferralAddresses(_, _)
ReferralAddresses(addresses, name) ==
    IF addresses = <<>> THEN <<>>
    ELSE <<NameServer(name, Head(addresses))>> \o ReferralAddresses(Tail(addresses), name)

RECURSIVE ReferralLookup(_, _)
ReferralLookup(needs_ip, net) ==
    IF needs_ip = <<>> THEN <<>>
    ELSE ReferralAddresses(lookup_host(net, Head(needs_ip)), Head(needs_ip))
         \o ReferralLookup(Tail(needs_ip), net)

\* The loop over the servers of the deepest matched zone: the position of
\* the first server whose reply has rcode NOERROR, 0 when there is none.  A
\* query that errors and a reply with another rcode both go on to the next.
ReferralFirstNoError(servers, net) ==
    LET oks == {i \in 1..Len(servers) : net.ns[i] = "NOERROR"}
    IN  IF oks = {} THEN 0 ELSE CHOOSE i \in oks : \A j \in oks : i <= j

\* The referral block returning the error once every server has failed.
ReferralErrWhenAllFail(root, last_ns, _zone_name, net) ==
    LET servers == last_ns.servers
        Asked(k) == [i \in 1..(IF k = 0 THEN Len(servers) ELSE k) |->
                        Query(servers[i].ip, _zone_name, "NS")]
        Learn(zone_ns, needs_ip, sent) ==
            [root |-> InsertZone(root, _zone_name, zone_ns), ret |-> Ok(zone_ns),
             sent |-> sent, lookups |-> needs_ip, inserted |-> {_zone_name}]
        Resolve(auth, sent) ==
            Learn(NameServersForZone(_zone_name,
                      auth.servers \o ReferralLookup(auth.needs_ip, net)),
                  auth.needs_ip, sent)
        Reply(k) ==
            IF k = 0
            THEN [root |-> root, ret |-> Err("nameserver not found"), sent |-> Asked(k),
                  lookups |-> <<>>, inserted |-> {}]
            ELSE Resolve(ReferralAuthority(read_record(net.reply.authority),
                                           read_record(net.reply.additional)),
                         Asked(k))
    IN  Reply(ReferralFirstNoError(servers, net))

\* The referral block without the insert into root_addr.
ReferralWithoutInsert(root, last_ns, _zone_name, net) ==
    LET servers == last_ns.servers
        Asked(k) == [i \in 1..(IF k = 0 THEN Len(servers) ELSE k) |->
                        Query(servers[i].ip, _zone_name, "NS")]
        Learn(zone_ns, needs_ip, sent) ==
            [root |-> root, ret |-> Ok(zone_ns),
             sent |-> sent, lookups |-> needs_ip, inserted |-> {_zone_name}]
        Resolve(auth, sent) ==
            Learn(NameServersForZone(_zone_name,
                      auth.servers \o ReferralLookup(auth.needs_ip, net)),
                  auth.needs_ip, sent)
        Reply(k) ==
            IF k = 0
            THEN [root |-> root, ret |-> Ok(last_ns), sent |-> Asked(k),
                  lookups |-> <<>>, inserted |-> {}]
            ELSE Resolve(ReferralAuthority(read_record(net.reply.authority),
                                           read_record(net.reply.additional)),
                         Asked(k))
    IN  Reply(ReferralFirstNoError(servers, net))

\* The referral block (zone_ctr == 1 && spl.len() > 2) for the candidate
\* _zone_name that is no key of the index, last_ns being the entry matched.
Referral(root, last_ns, _zone_name, net) ==
    LET servers == last_ns.servers
        Asked(k) == [i \in 1..(IF k = 0 THEN Len(servers) ELSE k) |->
                        Query(servers[i].ip, _zone_name, "NS")]
        Learn(zone_ns, needs_ip, sent) ==
            [root |-> InsertZone(root, _zone_name, zone_ns), ret |-> Ok(zone_ns),
             sent |-> sent, lookups |-> needs_ip, inserted |-> {_zone_name}]
        Resolve(auth, sent) ==
            Learn(NameServersForZone(_zone_name,
                      auth.servers \o ReferralLookup(auth.needs_ip, net)),
                  auth.needs_ip, sent)
        Reply(k) ==
            IF k = 0
            THEN [root |-> root, ret |-> Ok(last_ns), sent |-> Asked(k),
                  lookups |-> <<>>, inserted |-> {}]
            ELSE Resolve(ReferralAuthority(read_record(net.reply.authority),
                                           read_record(net.reply.additional)),
                         Asked(k))
    IN  Reply(ReferralFirstNoError(servers, net))

\* The loop over spl.iter().rev(), with last_ns (<<>> stands for None),
\* zone_name and zone_ctr as the code keeps them.
RECURSIVE ResolveLoop(_, _, _, _, _, _)
ResolveLoop(root, spl, i, zone_name, zone_ctr, net) ==
    LET last == IF zone_name = <<>>
                THEN [root |-> root, ret |-> Err("nameserver not found"), sent |-> <<>>,
                      lookups |-> <<>>, inserted |-> {}]
                ELSE [root |-> root, ret |-> Ok(root[zone_name]), sent |-> <<>>,
                      lookups |-> <<>>, inserted |-> {}]
    IN  IF i = 0 THEN last
        ELSE LET _zone_name == spl[i] \o zone_name
             IN  IF HasZone(root, _zone_name)
                 THEN ResolveLoop(root, spl, i - 1, _zone_name, zone_ctr + 1, net)
                 ELSE IF zone_ctr = 1 /\ Len(spl) > 2
                      THEN Referral(root, root[zone_name], _zone_name, net)
                      ELSE last

get_nameservers_and_resolve(root, domain_name, net) ==
    LET spl == split_name(domain_name)
    IN  ResolveLoop(root, spl, Len(spl), <<>>, 0, net)


-----------------------------------------------------------------------------
(* Monitor::test and Monitor::normalize *)

\* Option<T>: None and Some(v)
None == [some |-> FALSE, v |-> <<>>]
Some(v) == [some |-> TRUE, v |-> v]

\* struct Monitor: one audit target
Monitor(domain_name, ns, ip) == [domain_name |-> domain_name, ns |-> ns, ip |-> ip]

\* Monitor::normalize: every expected nameserver name ends with a dot.
normalize(me) ==
    IF me.ns.some
    THEN [me EXCEPT !.ns = Some([i \in 1..Len(me.ns.v) |->
                                    IF EndsWithDot(me.ns.v[i]) THEN me.ns.v[i]
                                    ELSE Append(me.ns.v[i], DOT)])]
    ELSE me

\* The MonitorResult that test starts from.
MonitorResult(domain_name) ==
    [domain_name |-> domain_name, success |-> TRUE, reason |-> <<>>, flags |-> <<>>,
     nameservers |-> None, ips |-> None]

\* A flag pushed without its reason, success left as it was.
RaiseFlagOnly(rval, flag, reason) ==
    [rval EXCEPT !.flags = Append(@, flag)]

\* One flag raised: the flag and its reason pushed, success cleared.
RaiseFlag(rval, flag, reason) ==
    [rval EXCEPT !.flags = Append(@, flag), !.reason = Append(@, reason),
                 !.success = FALSE]

\* What Sender::query gives back: Err (nothing read), or Ok with the
\* sections of the reply as they are on the wire, whatever the rcode.
QueryErr == [ok |-> FALSE, rcode |-> "", answer |-> <<>>, authority |-> <<>>]
QueryOk(rcode, answer, authority) ==
    [ok |-> TRUE, rcode |-> rcode, answer |-> answer, authority |-> authority]

\* A query and whether it returned Ok, as the audit's record of its traffic.
Sent(ip, host, query_type, ok) == [q |-> Query(ip, host, query_type), ok |-> ok]

\* The loop over query.authority: the target of every NS record.
RECURSIVE AuthorityNames(_)
AuthorityNames(authority) ==
    IF authority = <<>> THEN <<>>
    ELSE LET rec == Head(authority)
         IN  (IF rec.record_type = "NS" /\ rec.rdata_type = "RDATANameRR"
              THEN <<rec.rdata>> ELSE <<>>) \o AuthorityNames(Tail(authority))

\* The loop leaving only at a reply whose rcode is NOERROR.
RECURSIVE CollectNsLoopNoError(_, _, _, _)
CollectNsLoopNoError(servers, i, domain_name, net) ==
    IF i > Len(servers) THEN [read_ns |-> <<>>, sent |-> <<>>]
    ELSE LET out == IF i <= Len(net.ns_query) THEN net.ns_query[i] ELSE QueryErr
             s   == Sent(servers[i].ip, domain_name, "NS", out.ok)
         IN  IF out.ok /\ out.rcode = "NOERROR"
             THEN [read_ns |-> AuthorityNames(read_record(out.authority)), sent |-> <<s>>]
             ELSE LET rest == CollectNsLoopNoError(servers, i + 1, domain_name, net)
                  IN  [read_ns |-> rest.read_ns, sent |-> <<s>> \o rest.sent]

\* The loop over root_ns.servers: the NS query goes to each server in turn
\* until one returns Ok; its authority section gives read_ns.
RECURSIVE CollectNsLoop(_, _, _, _)
CollectNsLoop(servers, i, domain_name, net) ==
    IF i > Len(servers) THEN [read_ns |-> <<>>, sent |-> <<>>]
    ELSE LET out == IF i <= Len(net.ns_query) THEN net.ns_query[i] ELSE QueryErr
             s   == Sent(servers[i].ip, domain_name, "NS", out.ok)
         IN  IF out.ok
             THEN [read_ns |-> AuthorityNames(read_record(out.authority)), sent |-> <<s>>]
             ELSE LET rest == CollectNsLoop(servers, i + 1, domain_name, net)
                  IN  [read_ns |-> rest.read_ns, sent |-> <<s>> \o rest.sent]

\* Lines 83-102: read_ns, with the index as the walker leaves it.
CollectNs(root, me, net) ==
    LET Asked(r, c) == [root |-> r.root, read_ns |-> c.read_ns, sent |-> c.sent,
                        servers |-> r.ret.entry.servers]
        Walked(r) ==
            IF r.ret.ok
            THEN Asked(r, CollectNsLoop(r.ret.entry.servers, 1, me.domain_name, net))
            ELSE [root |-> r.root, read_ns |-> <<>>, sent |-> <<>>, servers |-> <<>>]
    IN  Walked(get_nameservers_and_resolve(root, me.domain_name, net.referral))

\* The comparison without folding the case of the names.
NsNameFoundExact(read_ns, nsname) ==
    \E j \in 1..Len(read_ns) : read_ns[j] = nsname

\* The inner loop over read_ns: whether some name equals nsname,
\* ASCII case-insensitively.
NsNameFound(read_ns, nsname) ==
    \E j \in 1..Len(read_ns) : EqIgnoreAsciiCase(read_ns[j], nsname)

\* The loop over the expected names: the flag at the first name that is
\* not found, and the loop left there.
RECURSIVE ExpectedNsLoop(_, _, _, _)
ExpectedNsLoop(ns, i, read_ns, rval) ==
    IF i > Len(ns) THEN rval
    ELSE IF ~NsNameFound(read_ns, ns[i])
         THEN RaiseFlag(rval, "AuthoratativeFail", "nameservers at root do not match expected")
         ELSE ExpectedNsLoop(ns, i + 1, read_ns, rval)

\* Lines 104-136: the nameserver check, then rval.nameservers.
CheckNs(me, read_ns, rval) ==
    LET checked ==
            IF ~me.ns.some THEN rval
            ELSE IF Len(read_ns) = 0
                 THEN RaiseFlag(rval, "NoAuthoratative", "no authoratative nameservers at root")
                 ELSE IF Len(read_ns) # Len(me.ns.v)
                      THEN RaiseFlag(rval, "AuthoratativeFail",
                                     "nameservers at root do not match expected")
                      ELSE ExpectedNsLoop(me.ns.v, 1, read_ns, rval)
    IN  [checked EXCEPT !.nameservers = Some(read_ns)]

\* The addresses pushed by one loop over query.answer: the RDATA of the
\* records of that type whose RDATA struct is of that kind.
RECURSIVE AnswerAddresses(_, _, _)
AnswerAddresses(answer, record_type, rdata_type) ==
    IF answer = <<>> THEN <<>>
    ELSE LET res == Head(answer)
         IN  (IF res.record_type = record_type /\ res.rdata_type = rdata_type
              THEN <<res.rdata>> ELSE <<>>)
             \o AnswerAddresses(Tail(answer), record_type, rdata_type)

\* The loop over the addresses of one nameserver: an A and an AAAA query
\* through one Sender, whose answer list keeps what the A reply put there;
\* the loop is left at the first address that returned Ok to either.
RECURSIVE AddressLoop(_, _, _, _)
AddressLoop(addresses, i, domain_name, net) ==
    IF i > Len(addresses)
    THEN [result_from_ns |-> FALSE, read_addresses |-> <<>>, sent |-> <<>>]
    ELSE LET addr    == addresses[i]
             a       == net.a_query[addr]
             aaaa    == net.aaaa_query[addr]
             answer1 == IF a.ok THEN read_record(a.answer) ELSE <<>>
             answer2 == IF aaaa.ok THEN answer1 \o read_record(aaaa.answer) ELSE answer1
             from_a  == IF a.ok THEN AnswerAddresses(answer1, "A", "RDATAa") ELSE <<>>
             from_aaaa == IF aaaa.ok THEN AnswerAddresses(answer2, "A", "RDATAaaaa")
                          ELSE <<>>
             sent    == <<Sent(addr, domain_name, "A", a.ok),
                          Sent(addr, domain_name, "AAAA", aaaa.ok)>>
         IN  IF a.ok \/ aaaa.ok
             THEN [result_from_ns |-> TRUE, read_addresses |-> from_a \o from_aaaa,
                   sent |-> sent]
             ELSE LET rest == AddressLoop(addresses, i + 1, domain_name, net)
                  IN  [rest EXCEPT !.sent = sent \o @]

\* The loop over rval.ips: a flag for every address that is not expected.
RECURSIVE UnexpectedIpLoop(_, _, _)
UnexpectedIpLoop(ips, i, rval) ==
    IF i > Len(rval.ips.v) THEN rval
    ELSE IF \E k \in 1..Len(ips) : rval.ips.v[i] = ips[k]
         THEN UnexpectedIpLoop(ips, i + 1, rval)
         ELSE UnexpectedIpLoop(ips, i + 1,
                  RaiseFlag(rval, "ResolveIpNotMatch", "did not return the correct ips"))

\* The comparison that takes the lists as equal when their lengths are.
CompareIpsByLength(ips, rval) ==
    IF Len(rval.ips.v) = 0
    THEN RaiseFlag(rval, "NoResolve", "domain did not resolve")
    ELSE IF Len(rval.ips.v) # Len(ips)
         THEN RaiseFlag(rval, "ResolveIpNotMatch", "did not return the correct ips")
         ELSE rval

\* Lines 186-209: rval.ips against the expected addresses.
CompareIps(ips, rval) ==
    IF Len(rval.ips.v) = 0
    THEN RaiseFlag(rval, "NoResolve", "domain did not resolve")
    ELSE IF Len(rval.ips.v) # Len(ips)
         THEN RaiseFlag(rval, "ResolveIpNotMatch", "did not return the correct ips")
         ELSE UnexpectedIpLoop(ips, 1, rval)

\* The loop over rval.nameservers: the first nameserver with an address
\* that answers decides; with none, rval is left as it is.
RECURSIVE AuthNsLoop(_, _, _, _)
AuthNsLoop(me, rval, i, net) ==
    IF i > Len(rval.nameservers.v) THEN [rval |-> rval, sent |-> <<>>, lookups |-> <<>>]
    ELSE LET auth_ns   == rval.nameservers.v[i]
             addresses == lookup_host(net, auth_ns)
             looked    == <<[name |-> auth_ns, addresses |-> addresses]>>
             Asked(r)  ==
                 IF r.result_from_ns
                 THEN [rval |-> CompareIps(me.ip.v,
                                    [rval EXCEPT !.ips = Some(r.read_addresses)]),
                       sent |-> r.sent, lookups |-> looked]
                 ELSE [AuthNsLoop(me, rval, i + 1, net)
                          EXCEPT !.sent = r.sent \o @, !.lookups = looked \o @]
         IN  Asked(AddressLoop(addresses, 1, me.domain_name, net))

\* Lines 139-216: the address check.
CheckIps(me, rval, net) ==
    IF me.ip.some THEN AuthNsLoop(me, rval, 1, net)
    ELSE [rval |-> rval, sent |-> <<>>, lookups |-> <<>>]

\* Monitor::test as a whole: the result, the index it leaves and its traffic.
MonitorTest(root, me, net) ==
    LET Returned(c, r) ==
            [root |-> c.root, rval |-> r.rval, sent |-> c.sent \o r.sent,
             lookups |-> r.lookups]
        Collected(c) ==
            Returned(c, CheckIps(me, CheckNs(me, c.read_ns, MonitorResult(me.domain_name)),
                                 net))
    IN  Collected(CollectNs(root, me, net))

-----------------------------------------------------------------------------
(* main: the slicing of the targets *)

\* config: local_config popped from its end, each target normalized.
ConfigOf(local_config) ==
    [i \in 1..Len(local_config) |-> normalize(local_config[Len(local_config) - i + 1])]

\* (config.len() as f32 / thread_ct as f32).ceil(), for thread_ct >= 1
SliceLen(n, thread_ct) == (n + thread_ct - 1) \div thread_ct

\* requests: thread_ct lists, each taking the next SliceLen targets from
\* the one iterator over config; a target is held by its position in config.
Requests(n, thread_ct) ==
    IF thread_ct <= 0 THEN <<>>
    ELSE [t \in 1..thread_ct |->
            LET k     == SliceLen(n, thread_ct)
                first == (t - 1) * k + 1
                last  == IF t * k <= n THEN t * k ELSE n
            IN  IF first > last THEN <<>> ELSE [j \in 1..(last - first + 1) |-> first + j - 1]]

-----------------------------------------------------------------------------
(* Inputs of the walker: domain names, root indexes, replies *)

\* u8::to_ascii_uppercase on the letters the model uses
ToAsciiUpper(c) ==
    CASE c = "a" -> "A"
      [] c = "b" -> "B"
      [] c = "c" -> "C"
      [] c = "n" -> "N"
      [] c = "o" -> "O"
      [] c = "g" -> "G"
      [] c = "h" -> "H"
      [] c = "i" -> "I"
      [] c = "l" -> "L"
      [] c = "m" -> "M"
      [] c = "r" -> "R"
      [] c = "s" -> "S"
      [] c = "t" -> "T"
      [] c = "x" -> "X"
      [] OTHER -> c

UpperCase(s) == [i \in 1..Len(s) |-> ToAsciiUpper(s[i])]

\* Top-level labels (one of two characters, one of one) and inner labels.
TopLabels == {<<"c", "o">>, <<"b">>}
InnerLabels == {<<"a">>, <<"b">>}

RECURSIVE JoinLabels(_)
JoinLabels(ls) ==
    IF Len(ls) = 1 THEN ls[1] ELSE ls[1] \o <<DOT>> \o JoinLabels(Tail(ls))

\* Label sequences of 1..MaxLabels labels, the top-level label last.
LabelSeqs ==
    UNION {{ls \in [1..n -> TopLabels \cup InnerLabels] :
                /\ ls[n] \in TopLabels
                /\ \A i \in 1..(n - 1) : ls[i] \in InnerLabels} : n \in 1..MaxLabels}

\* Every such name with and without its trailing dot, in lower and in upper
\* case, and the root name.
Domains ==
    LET lower == {JoinLabels(ls) : ls \in LabelSeqs}
        dotted == lower \cup {Append(n, DOT) : n \in lower}
    IN  {<<DOT>>} \cup dotted \cup {UpperCase(n) : n \in dotted}

ZoneRoot == <<".">>
ZoneCo   == <<"c", "o", ".">>
ZoneB    == <<"b", ".">>
ZoneACo  == <<"a", ".", "c", "o", ".">>
ZoneBACo == <<"b", ".", "a", ".", "c", "o", ".">>

\* The zones a root zone file of the model may delegate: any of the root,
\* co. and the two zones below it, or the one-character zone b. (alone or
\* beside co.).
KeyZones == {ZoneRoot, ZoneCo, ZoneACo, ZoneBACo}
KeySets == (SUBSET KeyZones) \cup {{ZoneB}, {ZoneB, ZoneCo}}

\* The servers from_file gives a delegated zone: one per glue address.
ZoneServers(z) ==
    CASE z = ZoneRoot -> <<NameServer(<<"r", ".">>, 1)>>
      [] z = ZoneCo   -> <<NameServer(<<"g", ".">>, 2), NameServer(<<"h", ".">>, 3)>>
      [] z = ZoneACo  -> <<NameServer(<<"n", ".">>, 4)>>
      [] OTHER        -> <<NameServer(<<"m", ".">>, 5)>>

\* The index built from a root zone file that delegates the zones K.
IndexOf(K) == [z \in K |-> NameServersForZone(z, ZoneServers(z))]

\* Names of nameserver hosts, as labels on the wire and as strings.
LabelsN == <<<<"n">>>>
LabelsUpperN == <<<<"N">>>>
LabelsM == <<<<"m">>>>
HostN == <<"n", ".">>
HostM == <<"m", ".">>

\* The labels of a zone name: split_name's pieces without their dots.
ZoneLabels(z) ==
    LET spl == split_name(z) IN [i \in 1..Len(spl) |-> SubSeq(spl[i], 1, Len(spl[i]) - 1)]

\* Sections of a NOERROR referral reply for zone z: no NS record; an NS
\* record with glue (its target in another case); one with glue and one
\* without; one without glue; a record of another type only.
Replies(z) ==
    LET o == ZoneLabels(z)
    IN  { [authority |-> <<>>, additional |-> <<>>],
          [authority |-> <<WireRR("NS", o, LabelsUpperN)>>,
           additional |-> <<WireRR("A", LabelsN, 6), WireRR("AAAA", LabelsN, 7)>>],
          [authority |-> <<WireRR("NS", o, LabelsN), WireRR("NS", o, LabelsM)>>,
           additional |-> <<WireRR("A", LabelsN, 6)>>],
          [authority |-> <<WireRR("NS", o, LabelsM)>>, additional |-> <<>>],
          [authority |-> <<WireRR("SOA", o, LabelsN)>>,
           additional |-> <<WireRR("A", LabelsN, 6)>>] }

NoReply == [authority |-> <<>>, additional |-> <<>>]

\* What the OS resolver knows: nothing, the zone name as the wire gives it
\* (no trailing dot), or a server name.
HostTables(z) ==
    { <<>>, [h \in {QnameOfLabels(ZoneLabels(z))} |-> <<9>>], [h \in {HostM} |-> <<9>>] }

\* What the two servers asked answer, in order: an error, a reply with
\* another rcode, or a NOERROR reply.  No later server is asked after a
\* NOERROR reply, so its answer is left out of the patterns.
FailPatterns == {<<"Err", "Err">>, <<"Err", "NXDOMAIN">>, <<"NXDOMAIN", "NXDOMAIN">>}
OkPatterns == {<<"NOERROR", "Err">>, <<"Err", "NOERROR">>, <<"NXDOMAIN", "NOERROR">>}

Nets(z) ==
    { [ns |-> o, reply |-> NoReply, host |-> <<>>] : o \in FailPatterns }
    \cup
    { [ns |-> o, reply |-> rp, host |-> h] :
        o \in OkPatterns, rp \in Replies(z), h \in HostTables(z) }

\* The answer used where no query is sent.
NoNet == [ns |-> <<"Err", "Err">>, reply |-> NoReply, host |-> <<>>]

-----------------------------------------------------------------------------
(* Inputs of the audit: targets, replies of the nameservers, the resolver *)

\* Longest list of expected nameservers or addresses of a target.
MaxExpected == 2

RECURSIVE SeqsUpTo(_, _)
SeqsUpTo(S, n) ==
    IF n = 0 THEN {<<>>}
    ELSE LET shorter == SeqsUpTo(S, n - 1)
         IN  shorter \cup {Append(q, x) : q \in {r \in shorter : Len(r) = n - 1}, x \in S}

\* Expected names as the JSON may give them, with or without the dot.
ExpectedNames == {HostN, <<"m">>}
ExpectedNsLists == {None} \cup {Some(q) : q \in SeqsUpTo(ExpectedNames, MaxExpected)}
ExpectedIpLists == {None} \cup {Some(q) : q \in SeqsUpTo({1, 2}, MaxExpected)}

ZoneAB   == <<"a", ".", "b", ".">>
ZoneAACo == <<"a", ".", "a", ".", "c", "o", ".">>

\* Targets under a zone of the index with every expectation, and, with
\* some, a name under no zone of the index and one that takes a referral.
AuditTargets ==
    {Monitor(ZoneACo, ns, ip) : ns \in ExpectedNsLists, ip \in ExpectedIpLists}
    \cup {Monitor(d, ns, ip) : d \in {ZoneAB, ZoneAACo},
                              ns \in {None, Some(<<HostN>>)}, ip \in {None, Some(<<1>>)}}

\* The owner name the replies to the audit's queries carry.
LabelsACo == <<<<"a">>, <<"c", "o">>>>

\* Authority sections a parent server may send for the NS query.
NsAuthorities ==
    { <<>>,
      <<WireRR("NS", LabelsACo, LabelsUpperN)>>,
      <<WireRR("NS", LabelsACo, LabelsM)>>,
      <<WireRR("NS", LabelsACo, LabelsN), WireRR("NS", LabelsACo, LabelsM)>>,
      <<WireRR("SOA", LabelsACo, LabelsN)>> }

\* What the parent servers do with the NS query, in list order: no reply,
\* or a reply (of either rcode) with one of the authority sections.
NsQueries ==
    { <<QueryErr, QueryErr>> }
    \cup { <<QueryOk("NOERROR", <<>>, au), QueryErr>> : au \in NsAuthorities }
    \cup { <<QueryErr, QueryOk("NXDOMAIN", <<>>, au)>> : au \in NsAuthorities \ {<<>>} }
    \cup { <<QueryOk("SERVFAIL", <<>>, <<WireRR("NS", LabelsACo, LabelsM)>>),
             QueryOk("NOERROR", <<>>, <<WireRR("NS", LabelsACo, LabelsN)>>)>> }

\* Answer sections for the A query and for the AAAA query.
AnswersA ==
    { <<>>, <<WireRR("A", LabelsACo, 1)>>,
      <<WireRR("A", LabelsACo, 1), WireRR("A", LabelsACo, 2)>>,
      <<WireRR("A", LabelsACo, 3)>>,
      <<WireRR("A", LabelsACo, 3), WireRR("A", LabelsACo, 6)>> }
AnswersAAAA == { <<>>, <<WireRR("AAAA", LabelsACo, 8)>> }

\* What the nameserver at one address does with the A and the AAAA query.
AddressQuery(a4, aaaa4, a5, aaaa5) ==
    [a |-> [ip \in {4, 5} |-> IF ip = 4 THEN a4 ELSE a5],
     aaaa |-> [ip \in {4, 5} |-> IF ip = 4 THEN aaaa4 ELSE aaaa5]]

\* The resolver and the nameservers as the address check meets them: no
\* name resolves; the names resolve to address 4, which does each thing
\* with the two queries; or to a silent 4 and then 5; or to 5 alone.
AddressNets ==
    LET both  == [h \in {HostN, UpperCase(HostN)} |-> <<4, 5>>]
        one   == [h \in {HostN, UpperCase(HostN)} |-> <<4>>]
        other == [h \in {HostM} |-> <<5>>]
        at5   == { <<QueryErr, QueryErr>>,
                   <<QueryOk("NOERROR", <<WireRR("A", LabelsACo, 2)>>, <<>>), QueryErr>>,
                   <<QueryErr, QueryOk("NOERROR", <<WireRR("AAAA", LabelsACo, 8)>>, <<>>)>> }
    IN  { [host |-> <<>>, aq |-> AddressQuery(QueryErr, QueryErr, QueryErr, QueryErr)] }
        \cup { [host |-> one, aq |-> AddressQuery(a4, aaaa4, QueryErr, QueryErr)] :
                 a4 \in {QueryErr} \cup {QueryOk("NOERROR", an, <<>>) : an \in AnswersA},
                 aaaa4 \in {QueryErr} \cup {QueryOk("NOERROR", an, <<>>) : an \in AnswersAAAA} }
        \cup { [host |-> h, aq |-> AddressQuery(QueryErr, QueryErr, o5[1], o5[2])] :
                 h \in {both, other}, o5 \in at5 }

\* What the walker's referral query meets during an audit: no parent
\* server replies, or the first one does, with each of the replies.
AuditReferrals ==
    {n \in Nets(ZoneACo) :
        n.ns \in {<<"Err", "Err">>, <<"NOERROR", "Err">>} /\ HostM \notin DOMAIN n.host}

\* The network as one audit meets it.
AuditNet(referral, ns_query, host, aq) ==
    [referral |-> referral, ns_query |-> ns_query, host |-> host,
     a_query |-> aq.a, aaaa_query |-> aq.aaaa]

\* The network before any of it has answered.
SilentNet ==
    AuditNet(NoNet, <<QueryErr, QueryErr>>, <<>>,
             AddressQuery(QueryErr, QueryErr, QueryErr, QueryErr))

-----------------------------------------------------------------------------
(* Inputs of the executor *)

\* Most targets in the JSON, most workers asked for, most passes followed.
MaxTargets == 3
MaxThreads == 2
MaxPasses == 2

\* The targets of the JSON file are the first n of these, taken in turn.
TargetPool ==
    <<Monitor(ZoneACo, Some(<<<<"n">>>>), None),
      Monitor(ZoneACo, None, Some(<<1>>)),
      Monitor(ZoneACo, Some(<<HostM>>), None)>>

LocalConfigs ==
    {[i \in 1..n |-> TargetPool[((i - 1) % Len(TargetPool)) + 1]] : n \in 0..MaxTargets}

\* --threads: absent (1), or any i32
ThreadCounts == (-1)..MaxThreads

\* The network as an audit of the executor meets it.
MainNets ==
    { AuditNet(NoNet, nq, [h \in {HostN} |-> <<4>>],
               AddressQuery(a4, QueryErr, QueryErr, QueryErr)) :
        nq \in { <<QueryErr, QueryErr>>,
                 <<QueryOk("NOERROR", <<>>, <<WireRR("NS", LabelsACo, LabelsN)>>), QueryErr>> },
        a4 \in { QueryErr,
                 QueryOk("NOERROR", <<WireRR("A", LabelsACo, 1)>>, <<>>),
                 QueryOk("NOERROR", <<WireRR("A", LabelsACo, 3)>>, <<>>) } }

-----------------------------------------------------------------------------
(* The root index under calls of the walker *)

\* No audit running.
NoAudit ==
    [pc |-> "none", me |-> Monitor(<<>>, None, None), read_ns |-> <<>>,
     rval |-> MonitorResult(<<>>), sent |-> <<>>, lookups |-> <<>>,
     servers |-> <<>>, nq |-> <<QueryErr, QueryErr>>,
     aq |-> AddressQuery(QueryErr, QueryErr, QueryErr, QueryErr)]

\* The executor not started.
NoArgs == [watch |-> FALSE, all |-> FALSE, thread_ct |-> 1, local_config |-> <<>>]
NoMain ==
    /\ args = NoArgs
    /\ main = [pc |-> "none", pass |-> 0, exited |-> FALSE, status |-> 0]
    /\ requests = <<>>
    /\ workers = <<>>
    /\ code = 0
    /\ results = <<>>
    /\ history = {}

\* No file being tokenized, no string being escaped.
NoTokenizer == [pc |-> "none", buffer |-> <<>>]
NoText == [pc |-> "none", in_str |-> <<>>, escaped |-> <<>>, unescaped |-> <<>>]
NoTokens ==
    /\ tokenizer = NoTokenizer
    /\ text = NoText

\* No query being sent, no header being written.
NoSender == [pc |-> "none"]
NoHeader == [pc |-> "none"]
NoQuery ==
    /\ sender = NoSender
    /\ header = NoHeader

\* No question being written, no name being read.
NoQuestion == [pc |-> "none"]
NoQname == [pc |-> "none"]
NoWire ==
    /\ question = NoQuestion
    /\ qname = NoQname

\* The command line read, no name being split.
NoCmdline == [pc |-> "none", error |-> "none"]
NoSplit == [pc |-> "none"]
NoStart ==
    /\ cmdline = NoCmdline
    /\ split = NoSplit

\* Zone::create not running.
NoParse ==
    [lines |-> <<>>, i |-> 0, origin0 |-> <<>>, origin |-> <<>>, ttl |-> 0, parsed |-> <<>>,
     err |-> ""]

\* No performance test asked for (no --cache-out).
NoPerf == [pc |-> "none", threads |-> <<>>, measured |-> {}]

\* The root zone file not being read: the index is taken as built.
NoFile ==
    /\ zone = <<>>
    /\ create = "none"
    /\ parse = NoParse
    /\ perf = NoPerf
    /\ NoTokens

NoCall == [op |-> "none", domain |-> <<>>, net |-> NoNet, ret |-> Err(""),
           sent |-> <<>>, lookups |-> <<>>, inserted |-> {}]

\* Root::create: the index as from_file built it; no call made yet.
RootInit ==
    /\ root_addr \in {IndexOf(K) : K \in KeySets}
    /\ call = NoCall
    /\ learned = {}
    /\ audit = NoAudit
    /\ NoMain
    /\ NoFile
    /\ NoQuery
    /\ NoStart
    /\ NoWire

\* The zone a referral for domain d would ask for: its last two labels.
ReferralZone(d) ==
    LET spl == split_name(d)
    IN  IF Len(spl) >= 2 THEN spl[Len(spl) - 1] \o spl[Len(spl)] ELSE d

\* Whether the call for d reaches the referral block, and so the network.
AsksNetwork(root, d) ==
    get_nameservers_and_resolve(root, d, [NoNet EXCEPT !.ns = <<"NOERROR", "Err">>]).sent # <<>>

\* A call of get_nameservers(d): the index is only read.
GetNameservers ==
    /\ call.op = "none"
    /\ \E d \in Domains :
        /\ call' = [op |-> "get_nameservers", domain |-> d, net |-> NoNet,
                    ret |-> get_nameservers(root_addr, d), sent |-> <<>>,
                    lookups |-> <<>>, inserted |-> {}]
        /\ UNCHANGED <<root_addr, learned, auditVars, mainVars, fileVars, perfVars, tokVars, queryVars, startVars, wireVars>>

\* A call of get_nameservers_and_resolve(d), the network answering net.
GetNameserversAndResolve ==
    /\ call.op = "none"
    /\ \E d \in Domains :
        \E net \in IF AsksNetwork(root_addr, d) THEN Nets(ReferralZone(d)) ELSE {NoNet} :
            \E r \in {get_nameservers_and_resolve(root_addr, d, net)} :
                /\ Cardinality(learned \cup r.inserted) <= MaxLearned
                /\ root_addr' = r.root
                /\ call' = [op |-> "get_nameservers_and_resolve", domain |-> d,
                            net |-> net, ret |-> r.ret, sent |-> r.sent,
                            lookups |-> r.lookups, inserted |-> r.inserted]
                /\ learned' = learned \cup r.inserted
                /\ UNCHANGED <<auditVars, mainVars, fileVars, perfVars, tokVars, queryVars, startVars, wireVars>>

\* The caller takes the result; the next call can be made.
ReturnToCaller ==
    /\ call.op # "none"
    /\ call' = NoCall
    /\ UNCHANGED <<root_addr, learned, auditVars, mainVars, fileVars, perfVars, tokVars, queryVars, startVars, wireVars>>

RootNext == GetNameservers \/ GetNameserversAndResolve \/ ReturnToCaller

SpecRoot == RootInit /\ [][RootNext]_vars

-----------------------------------------------------------------------------
(* One audit, step by step *)

\* The audit of one normalized target starts against the index as built.
AuditInit ==
    /\ root_addr = IndexOf({ZoneCo})
    /\ call = NoCall
    /\ learned = {}
    /\ \E t \in AuditTargets :
        audit = [NoAudit EXCEPT !.pc = "collect_ns", !.me = normalize(t),
                                !.rval = MonitorResult(t.domain_name)]
    /\ NoMain
    /\ NoFile
    /\ NoQuery
    /\ NoStart
    /\ NoWire

\* Lines 83-102: the walker is asked for the parent servers, which are
\* sent the NS query.
AuditCollectNs ==
    /\ audit.pc = "collect_ns"
    /\ LET d == audit.me.domain_name
       IN  \E referral \in IF AsksNetwork(root_addr, d)
                           THEN AuditReferrals ELSE {NoNet} :
           \E nq \in NsQueries :
             \E c \in {CollectNs(root_addr, audit.me,
                          [SilentNet EXCEPT !.referral = referral, !.ns_query = nq])} :
                 /\ root_addr' = c.root
                 /\ learned' = learned \cup (DOMAIN c.root \ DOMAIN root_addr)
                 /\ audit' = [audit EXCEPT !.pc = "check_ns", !.read_ns = c.read_ns,
                                           !.sent = c.sent,
                                           !.servers = c.servers, !.nq = nq]
    /\ UNCHANGED <<call, mainVars, fileVars, perfVars, tokVars, queryVars, startVars, wireVars>>

\* Lines 104-136: the nameserver check.
AuditCheckNs ==
    /\ audit.pc = "check_ns"
    /\ audit' = [audit EXCEPT !.pc = "check_ips",
                              !.rval = CheckNs(audit.me, audit.read_ns, audit.rval)]
    /\ UNCHANGED <<rootVars, mainVars, fileVars, perfVars, tokVars, queryVars, startVars, wireVars>>

\* Lines 139-219: the address check, and the result returned.
AuditCheckIps ==
    /\ audit.pc = "check_ips"
    /\ \E n \in AddressNets :
         \E r \in {CheckIps(audit.me, audit.rval,
                            AuditNet(NoNet, <<QueryErr, QueryErr>>, n.host, n.aq))} :
             audit' = [audit EXCEPT !.pc = "returned", !.rval = r.rval,
                                    !.sent = audit.sent \o r.sent,
                                    !.lookups = r.lookups, !.aq = n.aq]
    /\ UNCHANGED <<rootVars, mainVars, fileVars, perfVars, tokVars, queryVars, startVars, wireVars>>

AuditNext == AuditCollectNs \/ AuditCheckNs \/ AuditCheckIps

SpecAudit == AuditInit /\ [][AuditNext]_vars

-----------------------------------------------------------------------------
(* main: the executor *)

\* config, as main holds it once the targets are read.
Config == ConfigOf(args.local_config)

\* A worker thread: where it is in its list, and the result it holds.
WorkerAt(pc, pos, res) == [pc |-> pc, pos |-> pos, res |-> res]

\* Where a worker goes from the result of a test: only a result that is
\* recorded under --all moves the exit code.
AfterTestUnderAll(all, success) ==
    IF all THEN (IF ~success THEN "set_code" ELSE "push") ELSE "next"

\* Where a worker goes from the result of a test (all || !success, then
\* !success): to the exit code, to the results, or to its next target.
AfterTest(all, success) ==
    IF all \/ ~success THEN (IF ~success THEN "set_code" ELSE "push") ELSE "next"

\* The worker moved on to the next target of its list, or finished.
NextTarget(list, w) ==
    IF w.pos + 1 > Len(list) THEN WorkerAt("done", w.pos + 1, w.res)
    ELSE WorkerAt("test", w.pos + 1, w.res)

\* The loop left only when there is no watch interval.
BreakLoopUnwatched(watch, lcode) == ~watch

\* watch.is_none() || *lcode != 0
BreakLoop(watch, lcode) == ~watch \/ lcode # 0

\* The process as the command line and the JSON file leave it.
Init ==
    /\ root_addr = IndexOf({ZoneCo})
    /\ call = NoCall
    /\ learned = {}
    /\ audit = NoAudit
    /\ args \in {[watch |-> w, all |-> a, thread_ct |-> t, local_config |-> c] :
                    w \in BOOLEAN, a \in BOOLEAN, t \in ThreadCounts, c \in LocalConfigs}
    /\ main = [pc |-> "start", pass |-> 0, exited |-> FALSE, status |-> 0]
    /\ requests = <<>>
    /\ workers = <<>>
    /\ code = 0
    /\ results = <<>>
    /\ history = {}
    /\ NoFile
    /\ NoQuery
    /\ NoStart
    /\ NoWire

\* Lines 169-207: with nothing to test the process exits 1; otherwise the
\* targets are normalized and sliced into the request lists.
Start ==
    /\ main.pc = "start"
    /\ IF Len(args.local_config) = 0
       THEN /\ main' = [main EXCEPT !.pc = "exited", !.exited = TRUE, !.status = 1]
            /\ UNCHANGED requests
       ELSE /\ main' = [main EXCEPT !.pc = "spawn", !.pass = 1]
            /\ requests' = Requests(Len(Config), args.thread_ct)
    /\ UNCHANGED <<rootVars, auditVars, args, workers, code, results, history, fileVars, perfVars, tokVars, queryVars, startVars, wireVars>>

\* Lines 210-249: a pass begins with an empty result list and one thread
\* spawned per request list.
Spawn ==
    /\ main.pc = "spawn"
    /\ results' = <<>>
    /\ workers' = [t \in 1..Len(requests) |->
                      IF requests[t] = <<>> THEN WorkerAt("done", 1, MonitorResult(<<>>))
                      ELSE WorkerAt("test", 1, MonitorResult(<<>>))]
    /\ main' = [main EXCEPT !.pc = "join"]
    /\ UNCHANGED <<rootVars, auditVars, args, requests, code, history, fileVars, perfVars, tokVars, queryVars, startVars, wireVars>>

\* Lines 231-234: worker t audits the target it is at.
WorkerTest(t) ==
    /\ workers[t].pc = "test"
    /\ LET target == requests[t][workers[t].pos]
       IN  \E net \in MainNets :
           \E r \in {MonitorTest(root_addr, Config[target], net)} :
              /\ root_addr' = r.root
              /\ workers' = [workers EXCEPT ![t] =
                                IF AfterTest(args.all, r.rval.success) = "next"
                                THEN NextTarget(requests[t], [@ EXCEPT !.res = r.rval])
                                ELSE WorkerAt(AfterTest(args.all, r.rval.success),
                                              @.pos, r.rval)]
              /\ history' = history \cup {[pass |-> main.pass, worker |-> t,
                                           pos |-> workers[t].pos, target |-> target,
                                           success |-> r.rval.success]}
    /\ UNCHANGED <<call, learned, auditVars, args, main, requests, code, results, fileVars, perfVars, tokVars, queryVars, startVars, wireVars>>

\* Lines 238-240: a failed result sets the exit code, under its mutex.
WorkerSetCode(t) ==
    /\ workers[t].pc = "set_code"
    /\ code' = 2
    /\ workers' = [workers EXCEPT ![t].pc = "push"]
    /\ UNCHANGED <<rootVars, auditVars, args, main, requests, results, history, fileVars, perfVars, tokVars, queryVars, startVars, wireVars>>

\* Line 241: the result joins the results of the pass, under their mutex.
WorkerPush(t) ==
    /\ workers[t].pc = "push"
    /\ results' = Append(results, workers[t].res)
    /\ workers' = [workers EXCEPT ![t] = NextTarget(requests[t], @)]
    /\ UNCHANGED <<rootVars, auditVars, args, main, requests, code, history, fileVars, perfVars, tokVars, queryVars, startVars, wireVars>>

\* Lines 251-259: every thread joined, the results are written, and the
\* loop is left or the main thread goes to sleep.
Join ==
    /\ main.pc = "join"
    /\ \A t \in 1..Len(workers) : workers[t].pc = "done"
    /\ main' = [main EXCEPT !.pc = IF BreakLoop(args.watch, code) THEN "exit" ELSE "sleep"]
    /\ UNCHANGED <<rootVars, auditVars, args, requests, workers, code, results, history, fileVars, perfVars, tokVars, queryVars, startVars, wireVars>>

\* Lines 261-263: the interval over, the loop starts its next pass.
Sleep ==
    /\ main.pc = "sleep"
    /\ main.pass < MaxPasses
    /\ main' = [main EXCEPT !.pc = "spawn", !.pass = @ + 1]
    /\ UNCHANGED <<rootVars, auditVars, args, requests, workers, code, results, history, fileVars, perfVars, tokVars, queryVars, startVars, wireVars>>

\* Line 266: exit(code)
Exit ==
    /\ main.pc = "exit"
    /\ main' = [main EXCEPT !.pc = "exited", !.exited = TRUE, !.status = code]
    /\ UNCHANGED <<rootVars, auditVars, args, requests, workers, code, results, history, fileVars, perfVars, tokVars, queryVars, startVars, wireVars>>

Next ==
    \/ Start
    \/ Spawn
    \/ \E t \in 1..Len(workers) : WorkerTest(t)
    \/ \E t \in 1..Len(workers) : WorkerSetCode(t)
    \/ \E t \in 1..Len(workers) : WorkerPush(t)
    \/ Join
    \/ Sleep
    \/ Exit

Spec == Init /\ [][Next]_vars

\* The main thread keeps running: it is not left forever before a step it
\* can take (sleep returns, join returns once the threads have finished).
FairSpec ==
    Spec /\ WF_vars(Start) /\ WF_vars(Spawn) /\ WF_vars(Join) /\ WF_vars(Sleep)
         /\ WF_vars(Exit)

-----------------------------------------------------------------------------
(* Properties of the delegation walker *)

\* The zone made of the last k labels of a split name.
RECURSIVE SuffixZone(_, _)
SuffixZone(spl, k) ==
    IF k = 0 THEN <<>> ELSE spl[Len(spl) - k + 1] \o SuffixZone(spl, k - 1)

\* The label counts k such that the last k labels name a key of the index.
KeySuffixes(root, spl) == {k \in 1..Len(spl) : SuffixZone(spl, k) \in DOMAIN root}

\* The label counts k such that every suffix of 1..k labels is a key.
ChainSuffixes(root, spl) ==
    {k \in 1..Len(spl) : \A j \in 1..k : SuffixZone(spl, j) \in DOMAIN root}

Max(S) == CHOOSE x \in S : \A y \in S : y <= x

ReferralFailed(c) ==
    /\ c.op = "get_nameservers_and_resolve"
    /\ c.sent # <<>>
    /\ \A i \in 1..Len(c.sent) : c.net.ns[i] # "NOERROR"

Under(d, Z) ==
    LET spl == split_name(d) IN \E k \in 1..Len(spl) : SuffixZone(spl, k) = Z

Canonical(d) ==
    LET l == [i \in 1..Len(d) |-> ToAsciiLower(d[i])]
    IN  IF EndsWithDot(l) THEN l ELSE Append(l, DOT)

\* C10 as stated, for the names written with their trailing dot: a lookup
\* finds the zone for every query name that equals it up to ASCII letter
\* case, so get_nameservers returns for a name what it returns for its
\* lower-case form (the keys of the index are in lower case here).
C10_LookupIgnoresCase ==
    (call.op = "get_nameservers" /\ EndsWithDot(call.domain)) =>
        call.ret = get_nameservers(root_addr, Canonical(call.domain))

-----------------------------------------------------------------------------
(* Properties of the audit *)

HasFlag(rval, flag) == \E i \in 1..Len(rval.flags) : rval.flags[i] = flag

LowerCase(s) == [i \in 1..Len(s) |-> ToAsciiLower(s[i])]

\* Some expected name has no equal, letter case aside, among the observed.
SomeExpectedMissing(expected, observed) ==
    \E i \in 1..Len(expected) :
        \A j \in 1..Len(observed) : LowerCase(expected[i]) # LowerCase(observed[j])

\* C2: with expected_ns set, once the nameserver check is done,
\* NoAuthoratative is raised exactly when observed_ns is empty,
\* AuthoratativeFail exactly when observed_ns is not empty and the lists
\* differ in length or an expected name has no case-insensitive equal in
\* observed_ns; with neither raised the result is still a success with no
\* flag, and observed_ns is what the result reports.
C2_NsFlags ==
    (audit.pc \in {"check_ips", "returned"} /\ audit.me.ns.some) =>
        LET expected == audit.me.ns.v
            observed == audit.read_ns
        IN  /\ audit.rval.nameservers = Some(observed)
            /\ HasFlag(audit.rval, "NoAuthoratative") <=> (observed = <<>>)
            /\ HasFlag(audit.rval, "AuthoratativeFail") <=>
                   (/\ observed # <<>>
                    /\ \/ Len(observed) # Len(expected)
                       \/ SomeExpectedMissing(expected, observed))
            /\ (HasFlag(audit.rval, "NoAuthoratative") \/ HasFlag(audit.rval, "AuthoratativeFail"))
                   => ~audit.rval.success
            /\ (/\ audit.pc = "check_ips"
                /\ ~HasFlag(audit.rval, "NoAuthoratative")
                /\ ~HasFlag(audit.rval, "AuthoratativeFail"))
                   => (audit.rval.success /\ audit.rval.flags = <<>>)

\* C2's case: the expected name n. is observed as N., and no flag is raised.
C2_Witness ==
    /\ audit.pc = "check_ips"
    /\ audit.me.ns = Some(<<HostN>>)
    /\ audit.read_ns = <<UpperCase(HostN)>>
    /\ audit.rval.success
    /\ audit.rval.flags = <<>>

\* C3: with expected_ips set, a returned result that accumulated no
\* address carries NoResolve and is no success.
C3_NoResolveWhenNothingAccumulated ==
    (/\ audit.pc = "returned"
     /\ audit.me.ip.some
     /\ (~audit.rval.ips.some \/ audit.rval.ips.v = <<>>))
        => (HasFlag(audit.rval, "NoResolve") /\ ~audit.rval.success)

\* C3's case: expected_ips set, observed_ns empty, the result returned.
C3_Witness ==
    /\ audit.pc = "returned"
    /\ audit.me.ip.some
    /\ audit.rval.nameservers = Some(<<>>)

\* C4: with expected_ips set and at least one address accumulated, the
\* returned result carries ResolveIpNotMatch exactly when the number of
\* accumulated addresses differs from the number expected or some
\* accumulated address is not expected, it is then no success, and no
\* other address flag is raised.
C4_IpFlags ==
    (/\ audit.pc = "returned"
     /\ audit.me.ip.some
     /\ audit.rval.ips.some
     /\ Len(audit.rval.ips.v) >= 1)
        => LET expected == audit.me.ip.v
               observed == audit.rval.ips.v
               mismatch == \/ Len(observed) # Len(expected)
                           \/ \E i \in 1..Len(observed) :
                                 \A k \in 1..Len(expected) : observed[i] # expected[k]
           IN  /\ HasFlag(audit.rval, "ResolveIpNotMatch") <=> mismatch
               /\ mismatch => ~audit.rval.success
               /\ ~HasFlag(audit.rval, "NoResolve")

\* C4's case: as many addresses as expected, one of them not expected.
C4_Witness ==
    /\ audit.pc = "returned"
    /\ audit.me.ip = Some(<<1>>)
    /\ audit.rval.ips = Some(<<3>>)
    /\ HasFlag(audit.rval, "ResolveIpNotMatch")

-----------------------------------------------------------------------------
(* Properties of the executor *)

\* Some audit of pass p returned success = false.
FailedIn(p) == \E h \in history : h.pass = p /\ ~h.success

\* The audits that pass p ran for position pos of worker t's list.
AuditsOf(p, t, pos) == {h \in history : h.pass = p /\ h.worker = t /\ h.pos = pos}

\* Pass p audited every target of every request list exactly once.
FullPass(p) ==
    \A t \in 1..Len(requests) :
        \A pos \in 1..Len(requests[t]) :
            /\ Cardinality(AuditsOf(p, t, pos)) = 1
            /\ \A h \in AuditsOf(p, t, pos) : h.target = requests[t][pos]

\* C1: when the executor has stopped on a non-empty target list, the exit
\* status is 2 if some audit of some pass returned success = false, and 0
\* otherwise, whatever the interleaving of the workers.
C1_ExitStatus ==
    (main.exited /\ Len(args.local_config) > 0) =>
        main.status = IF \E h \in history : ~h.success THEN 2 ELSE 0

\* C1's case: two workers, one audit failed and one succeeded, failures
\* only are recorded, and the process has exited.
C1_Witness ==
    /\ main.exited
    /\ main.status = 2
    /\ ~args.all
    /\ Len(workers) = 2
    /\ \E h \in history : h.success
    /\ \E h \in history : ~h.success /\ h.worker = 2

-----------------------------------------------------------------------------
(* Root::from_file: the index built from the parsed root zone *)

\* struct RecordName: the literal of the file and the name it stands for
RecordName(name, fqdn) == [name |-> name, fqdn |-> fqdn]

\* struct ZoneRecord, its RDATA a struct of rr.rs
ZoneRecord(name, ttl, class, record_type, record_type_other, rdata) ==
    [kind |-> "ZoneRecord", name |-> name, ttl |-> ttl, class |-> class,
     record_type |-> record_type, record_type_other |-> record_type_other,
     rdata |-> rdata]

\* struct ZoneDirective
ZoneDirective(name, value) == [kind |-> "ZoneDirective", name |-> name, value |-> value]

\* struct RDATANameRR, struct RDATAa, struct RDATAaaaa, struct RDATAgeneric
RDATANameRR(name) == [rdata_type |-> "RDATANameRR", name |-> name]
RDATAa(ip) == [rdata_type |-> "RDATAa", ip |-> ip]
RDATAaaaa(ip) == [rdata_type |-> "RDATAaaaa", ip |-> ip]
RDATAgeneric(tokens) == [rdata_type |-> "RDATAgeneric", tokens |-> tokens]

\* record.as_any().downcast_mut::<ZoneRecord>() is Some
IsZoneRecord(record) == record.kind = "ZoneRecord"

\* The first loop of from_file: the bucket of a HashMap keyed by
\* name.fqdn, holding the records of the given types in file order.
Bucket(records, types, fqdn) ==
    SelectSeq(records, LAMBDA rec : /\ IsZoneRecord(rec)
                                    /\ rec.record_type \in types
                                    /\ rec.name.fqdn = fqdn)

\* The keys of that HashMap.
BucketKeys(records, types) ==
    {records[i].name.fqdn : i \in {j \in 1..Len(records) :
        IsZoneRecord(records[j]) /\ records[j].record_type \in types}}

\* ZoneRecord::record_to_address: Some(ip) of an RDATAa or RDATAaaaa
record_to_address(record) ==
    IF record.rdata.some /\ record.rdata.v.rdata_type \in {"RDATAa", "RDATAaaaa"}
    THEN Some(record.rdata.v.ip) ELSE None

\* NameServer::new: the owner and the address of an address record
NameServerNew(zone_record) ==
    NameServer(zone_record.name.fqdn, record_to_address(zone_record).v)

\* NameServer::new for every record of a bucket of addresses
RECURSIVE NameServersOf(_)
NameServersOf(i) ==
    IF i = <<>> THEN <<>> ELSE <<NameServerNew(Head(i))>> \o NameServersOf(Tail(i))

\* The inner loop of from_file over the NS records of one zone: the
\* servers every NS record adds, none when its RDATA is no name or its
\* target owns no address record.
RECURSIVE FromFileServers(_, _)
FromFileServers(zone_record, records) ==
    IF zone_record = <<>> THEN <<>>
    ELSE LET server == Head(zone_record)
             found  == /\ server.rdata.some
                       /\ server.rdata.v.rdata_type = "RDATANameRR"
                       /\ server.rdata.v.name.fqdn \in BucketKeys(records, {"A", "AAAA"})
         IN  (IF found
              THEN NameServersOf(Bucket(records, {"A", "AAAA"}, server.rdata.v.name.fqdn))
              ELSE <<>>)
             \o FromFileServers(Tail(zone_record), records)

\* Whether the inner loop reaches root_addr.entry(zone_name) for a zone.
FromFileHasEntry(zone_name, records) ==
    \E k \in 1..Len(Bucket(records, {"NS"}, zone_name)) :
        LET server == Bucket(records, {"NS"}, zone_name)[k]
        IN  /\ server.rdata.some
            /\ server.rdata.v.rdata_type = "RDATANameRR"
            /\ server.rdata.v.name.fqdn \in BucketKeys(records, {"A", "AAAA"})

\* from_file with addresses holding the A records only.
from_file_a_only(records) ==
    LET a_only == SelectSeq(records, LAMBDA rec :
                      ~(IsZoneRecord(rec) /\ rec.record_type = "AAAA"))
    IN  [zone_name \in {z \in BucketKeys(a_only, {"NS"}) : FromFileHasEntry(z, a_only)} |->
            NameServersForZone(zone_name,
                FromFileServers(Bucket(a_only, {"NS"}, zone_name), a_only))]

\* Root::from_file: root_addr as the two loops leave it
from_file(records) ==
    [zone_name \in {z \in BucketKeys(records, {"NS"}) : FromFileHasEntry(z, records)} |->
        NameServersForZone(zone_name,
            FromFileServers(Bucket(records, {"NS"}, zone_name), records))]

-----------------------------------------------------------------------------
(* Inputs: parsed root zones *)

\* The longest root zone read, in records.
MaxRecords == 3

HostG == <<"g", ".">>
HostH == <<"h", ".">>
HostUpperG == <<"G", ".">>

\* A record as Zone::create leaves it: names resolved, class IN.
ParsedRecord(fqdn, record_type, rdata) ==
    ZoneRecord(RecordName(fqdn, fqdn), 0, "C_IN", record_type, None, Some(rdata))

ParsedNS(fqdn, target) == ParsedRecord(fqdn, "NS", RDATANameRR(RecordName(target, target)))

\* The records a root zone is made of: delegations of two zones, addresses
\* of their servers (one owner differing from a target in letter case
\* only), a record of another type and a directive.
RecordPool ==
    { ParsedNS(ZoneCo, HostG), ParsedNS(ZoneCo, HostH), ParsedNS(ZoneACo, HostG),
      ParsedRecord(HostG, "A", RDATAa(1)), ParsedRecord(HostG, "AAAA", RDATAaaaa(2)),
      ParsedRecord(HostH, "A", RDATAa(3)), ParsedRecord(HostUpperG, "A", RDATAa(4)),
      ParsedRecord(ZoneCo, "TXT", RDATAgeneric(<<>>)),
      ZoneDirective(<<"T", "T", "L">>, <<"5">>) }

ParsedZones == UNION {[1..n -> RecordPool] : n \in 0..MaxRecords}

-----------------------------------------------------------------------------
(* Root::create: the zone read, then the index built *)

\* No walker call, no audit and no executor: the process is in Root::create.
InCreate ==
    /\ NoTokens
    /\ call = NoCall
    /\ learned = {}
    /\ audit = NoAudit
    /\ NoMain

\* Zone::create returned Ok: the records are parsed, the index is empty.
IndexInit ==
    /\ zone \in ParsedZones
    /\ create = "from_file"
    /\ parse = NoParse
    /\ root_addr = <<>>
    /\ perf = NoPerf
    /\ InCreate
    /\ NoQuery
    /\ NoStart
    /\ NoWire

\* rval.from_file()
FromFile ==
    /\ create = "from_file"
    /\ root_addr' = from_file(zone)
    /\ create' = "created"
    /\ UNCHANGED <<zone, parse, call, learned, auditVars, mainVars, perfVars, tokVars, queryVars, startVars, wireVars>>

IndexNext == FromFile

SpecIndex == IndexInit /\ [][IndexNext]_vars

\* The pairs of an NS record owned by zone_name and an address record
\* owned by its target, as positions in the file.
NsAddressPairs(zone_name) ==
    {p \in (1..Len(zone)) \X (1..Len(zone)) :
        /\ IsZoneRecord(zone[p[1]]) /\ zone[p[1]].record_type = "NS"
        /\ zone[p[1]].name.fqdn = zone_name
        /\ IsZoneRecord(zone[p[2]]) /\ zone[p[2]].record_type \in {"A", "AAAA"}
        /\ zone[p[2]].name.fqdn = zone[p[1]].rdata.v.name.fqdn}

\* The entry a pair stands for: the target, its address, no latency.
PairEntry(p) ==
    [server_name |-> zone[p[1]].rdata.v.name.fqdn, ip |-> zone[p[2]].rdata.v.ip,
     speed |-> NoSpeed]

\* The names that own a record of the file.
Owners == {zone[i].name.fqdn : i \in {j \in 1..Len(zone) : IsZoneRecord(zone[j])}}

\* C11: once the index is built, the zones that have an entry are those
\* with at least one pair of an NS record and an address record of its
\* target, and the server list of each holds every pair's entry as many
\* times as there are pairs for it, and nothing else; NS records whose
\* target owns no address record add nothing.
C11_IndexIsNsAddressPairs ==
    create = "created" =>
        /\ DOMAIN root_addr = {z \in Owners : NsAddressPairs(z) # {}}
        /\ \A z \in DOMAIN root_addr :
            /\ root_addr[z].zone_name = z
            /\ Len(root_addr[z].servers) = Cardinality(NsAddressPairs(z))
            /\ \A p \in NsAddressPairs(z) :
                Cardinality({k \in 1..Len(root_addr[z].servers) :
                                root_addr[z].servers[k] = PairEntry(p)})
                = Cardinality({q \in NsAddressPairs(z) : PairEntry(q) = PairEntry(p)})

\* Built from two delegations of one zone: one target owns an address
\* record, the other owns none.
C11_Witness ==
    /\ create = "created"
    /\ zone = <<ParsedNS(ZoneCo, HostH), ParsedRecord(HostG, "A", RDATAa(1)),
                ParsedNS(ZoneCo, HostG)>>
    /\ Len(root_addr[ZoneCo].servers) = 1


-----------------------------------------------------------------------------
(* NameServersForZone::sort and Root::performance_test *)

\* The number of SOA queries sent to a server.
SoaQueries == 5

\* The comparator of sort with the unmeasured servers first.
SpeedCmpNoneFirst(a, b) ==
    IF ~a.speed.some /\ ~b.speed.some THEN "Equal"
    ELSE IF a.speed.some /\ ~b.speed.some THEN "Greater"
    ELSE IF ~a.speed.some /\ b.speed.some THEN "Less"
    ELSE IF a.speed.v < b.speed.v THEN "Less"
    ELSE IF a.speed.v > b.speed.v THEN "Greater" ELSE "Equal"

\* The comparator of sort: two servers without a latency are equal, a
\* server with one is less than a server without, two latencies compare
\* as durations.
SpeedCmp(a, b) ==
    IF ~a.speed.some /\ ~b.speed.some THEN "Equal"
    ELSE IF a.speed.some /\ ~b.speed.some THEN "Less"
    ELSE IF ~a.speed.some /\ b.speed.some THEN "Greater"
    ELSE IF a.speed.v < b.speed.v THEN "Less"
    ELSE IF a.speed.v > b.speed.v THEN "Greater" ELSE "Equal"

\* A server put into a sorted list after the last one not greater than it.
RECURSIVE SortInsert(_, _)
SortInsert(sorted, server) ==
    IF sorted = <<>> THEN <<server>>
    ELSE IF SpeedCmp(server, Head(sorted)) = "Less" THEN <<server>> \o sorted
    ELSE <<Head(sorted)>> \o SortInsert(Tail(sorted), server)

\* Vec::sort_by: a stable sort under the comparator
RECURSIVE SortBy(_, _)
SortBy(sorted, servers) ==
    IF servers = <<>> THEN sorted
    ELSE SortBy(SortInsert(sorted, Head(servers)), Tail(servers))

\* NameServersForZone::sort
sort(ns_zone) == [ns_zone EXCEPT !.servers = SortBy(<<>>, ns_zone.servers)]

\* durations.div_f32(5f32), in whole units of the clock
DivDuration(durations) == durations \div SoaQueries

\* The latency test_main gives a server after its queries: is_ok is set
\* by any query that succeeded.
SpeedOf(is_ok, durations) ==
    IF is_ok THEN [some |-> TRUE, v |-> DivDuration(durations)] ELSE NoSpeed

\* A thread of the test: its list of zones, the zone and the server it is
\* at, the queries sent to that server, the locals is_ok and durations,
\* and (kept for the record only) how many of the queries failed.
PerfThread(list) ==
    [list |-> list, zi |-> 1, si |-> 1, n |-> 0, is_ok |-> FALSE, durations |-> 0,
     fails |-> 0]

\* The zones handed to thread k of thread_ct, from the zones in the order
\* the map iterates them: ctr goes round the threads.
ThreadList(order, k, thread_ct) ==
    SelectSeq(order, LAMBDA z :
        \E i \in 1..Len(order) : order[i] = z /\ ((i - 1) % thread_ct) + 1 = k)

-----------------------------------------------------------------------------
(* Inputs: the indexes ranked, the thread counts, the round-trip times *)

\* The longest round trip of a SOA query, in units of the clock.
MaxRtt == 2

Rtts == 1..MaxRtt

\* The thread count main passes, and a single thread.
PerfThreadCounts == {1, 20}

\* Root zones with three servers for one zone, one server for each of two
\* zones, and no delegation.
RankedZones ==
    { <<ParsedNS(ZoneCo, HostG), ParsedNS(ZoneCo, HostH), ParsedRecord(HostG, "A", RDATAa(1)),
        ParsedRecord(HostG, "AAAA", RDATAaaaa(2)), ParsedRecord(HostH, "A", RDATAa(3))>>,
      <<ParsedNS(ZoneCo, HostG), ParsedNS(ZoneACo, HostH),
        ParsedRecord(HostG, "A", RDATAa(1)), ParsedRecord(HostH, "A", RDATAa(3))>>,
      <<>> }

\* The orders a HashMap with the keys K can iterate them in.
Orders(K) ==
    {o \in [1..Cardinality(K) -> K] : \A i, j \in 1..Cardinality(K) : i # j => o[i] # o[j]}

-----------------------------------------------------------------------------
(* The performance test, thread by thread *)

\* main with --cache-out: the index built, the test about to start.
PerfInit ==
    /\ zone \in RankedZones
    /\ create = "created"
    /\ parse = NoParse
    /\ root_addr = from_file(zone)
    /\ perf = [NoPerf EXCEPT !.pc = "performance_test"]
    /\ InCreate
    /\ NoQuery
    /\ NoStart
    /\ NoWire

\* Lines 373-405: the zones are dealt to thread_ct lists and one thread is
\* spawned per list.
PerformanceTest ==
    /\ perf.pc = "performance_test"
    /\ \E thread_ct \in PerfThreadCounts :
        \E order \in Orders(DOMAIN root_addr) :
            perf' = [perf EXCEPT !.pc = "join",
                        !.threads = [k \in 1..thread_ct |->
                                        PerfThread(ThreadList(order, k, thread_ct))]]
    /\ UNCHANGED <<rootVars, auditVars, mainVars, fileVars, tokVars, queryVars, startVars, wireVars>>

\* The thread is at a server of a zone of its list.
AtServer(t) ==
    /\ perf.pc = "join"
    /\ perf.threads[t].zi <= Len(perf.threads[t].list)
    /\ perf.threads[t].si <= Len(root_addr[perf.threads[t].list[perf.threads[t].zi]].servers)

\* Lines 436-448: one SOA query to the server; it fails, or it succeeds
\* after some round-trip time.
SoaQuery(t) ==
    /\ AtServer(t)
    /\ perf.threads[t].n < SoaQueries
    /\ \/ perf' = [perf EXCEPT !.threads[t].n = @ + 1, !.threads[t].fails = @ + 1]
       \/ \E rtt \in Rtts :
            perf' = [perf EXCEPT !.threads[t].n = @ + 1, !.threads[t].is_ok = TRUE,
                                 !.threads[t].durations = @ + rtt]
    /\ UNCHANGED <<rootVars, auditVars, mainVars, fileVars, tokVars, queryVars, startVars, wireVars>>

\* Lines 451-455: the five queries over, the server gets its latency.
SetSpeed(t) ==
    /\ AtServer(t)
    /\ perf.threads[t].n = SoaQueries
    /\ LET th == perf.threads[t]
           z  == th.list[th.zi]
           sp == SpeedOf(th.is_ok, th.durations)
       IN  /\ root_addr' = [root_addr EXCEPT ![z].servers[th.si].speed = sp]
           /\ perf' = [perf EXCEPT
                          !.threads[t] = [@ EXCEPT !.si = @ + 1, !.n = 0, !.is_ok = FALSE,
                                                   !.durations = 0, !.fails = 0],
                          !.measured = @ \cup
                              {[zone_name |-> z,
                                server_name |-> root_addr[z].servers[th.si].server_name,
                                ip |-> root_addr[z].servers[th.si].ip,
                                fails |-> th.fails, durations |-> th.durations,
                                speed |-> sp]}]
    /\ UNCHANGED <<call, learned, auditVars, mainVars, fileVars, tokVars, queryVars, startVars, wireVars>>

\* Line 462: every server of the zone measured, the zone is sorted.
SortZone(t) ==
    /\ perf.pc = "join"
    /\ perf.threads[t].zi <= Len(perf.threads[t].list)
    /\ perf.threads[t].si > Len(root_addr[perf.threads[t].list[perf.threads[t].zi]].servers)
    /\ LET z == perf.threads[t].list[perf.threads[t].zi]
       IN  root_addr' = [root_addr EXCEPT ![z] = sort(@)]
    /\ perf' = [perf EXCEPT !.threads[t].zi = @ + 1, !.threads[t].si = 1]
    /\ UNCHANGED <<call, learned, auditVars, mainVars, fileVars, tokVars, queryVars, startVars, wireVars>>

\* The join that returns as soon as one thread has ended.
PerfJoinEarly ==
    /\ perf.pc = "join"
    /\ \E t \in 1..Len(perf.threads) : perf.threads[t].zi > Len(perf.threads[t].list)
    /\ perf' = [perf EXCEPT !.pc = "done", !.threads = <<>>]
    /\ UNCHANGED <<rootVars, auditVars, mainVars, fileVars, tokVars, queryVars, startVars, wireVars>>

\* Lines 407-409: every thread joined.
PerfJoin ==
    /\ perf.pc = "join"
    /\ \A t \in 1..Len(perf.threads) : perf.threads[t].zi > Len(perf.threads[t].list)
    /\ perf' = [perf EXCEPT !.pc = "done", !.threads = <<>>]
    /\ UNCHANGED <<rootVars, auditVars, mainVars, fileVars, tokVars, queryVars, startVars, wireVars>>

PerfNext ==
    \/ PerformanceTest
    \/ \E t \in 1..Len(perf.threads) : SoaQuery(t)
    \/ \E t \in 1..Len(perf.threads) : SetSpeed(t)
    \/ \E t \in 1..Len(perf.threads) : SortZone(t)
    \/ PerfJoin

SpecPerf == PerfInit /\ [][PerfNext]_vars

\* C12: after the ranking, in every zone's server list no server without
\* a latency comes before a server with one, and the latencies of the
\* measured servers never decrease along the list.
C12_RankedOrder ==
    perf.pc = "done" =>
        \A z \in DOMAIN root_addr :
            \A i, j \in 1..Len(root_addr[z].servers) :
                i < j =>
                    LET a == root_addr[z].servers[i]
                        b == root_addr[z].servers[j]
                    IN  /\ ~(~a.speed.some /\ b.speed.some)
                        /\ (a.speed.some /\ b.speed.some => a.speed.v <= b.speed.v)

\* Ranked: the server listed last in the file is first, the one listed
\* first has no latency and is last.
C12_Witness ==
    /\ perf.pc = "done"
    /\ ZoneCo \in DOMAIN root_addr
    /\ Len(root_addr[ZoneCo].servers) = 3
    /\ root_addr[ZoneCo].servers[1].ip = 3
    /\ root_addr[ZoneCo].servers[1].speed.some
    /\ root_addr[ZoneCo].servers[2].speed.some
    /\ root_addr[ZoneCo].servers[1].speed.v < root_addr[ZoneCo].servers[2].speed.v
    /\ root_addr[ZoneCo].servers[3].ip = 1
    /\ ~root_addr[ZoneCo].servers[3].speed.some


\* C13: after the ranking every server carries the latency of one of its
\* measurements, and every measurement gave the sum of the round-trip
\* times divided by five when none of the five queries failed, and no
\* latency as soon as one of them failed.
C13_SpeedIffAllFiveSucceeded ==
    perf.pc = "done" =>
        /\ \A z \in DOMAIN root_addr :
            \A k \in 1..Len(root_addr[z].servers) :
                \E m \in perf.measured :
                    /\ m.zone_name = z
                    /\ m.server_name = root_addr[z].servers[k].server_name
                    /\ m.ip = root_addr[z].servers[k].ip
                    /\ m.speed = root_addr[z].servers[k].speed
        /\ \A m \in perf.measured :
            /\ m.fails = 0 => m.speed = [some |-> TRUE, v |-> m.durations \div SoaQueries]
            /\ m.fails > 0 => m.speed = NoSpeed

\* Ranked with a latency although four of its five queries failed.
C13_Witness ==
    /\ perf.pc = "done"
    /\ \E m \in perf.measured :
        /\ m.fails = 4
        /\ m.speed.some
        /\ \E k \in 1..Len(root_addr[m.zone_name].servers) :
            /\ root_addr[m.zone_name].servers[k].ip = m.ip
            /\ root_addr[m.zone_name].servers[k].speed = m.speed


-----------------------------------------------------------------------------
(* Tokens of a zone file, and the numbers read from them *)

\* struct ZoneToken
ZoneToken(token, token_type, line) ==
    [token |-> token, token_type |-> token_type, line |-> line]

Digits == <<"0", "1", "2", "3", "4", "5", "6", "7", "8", "9">>

Letters ==
    {"a", "b", "c", "d", "e", "f", "g", "h", "i", "j", "k", "l", "m", "n", "o", "p", "q",
     "r", "s", "t", "u", "v", "w", "x", "y", "z", "A", "B", "C", "D", "E", "F", "G", "H",
     "I", "J", "K", "L", "M", "N", "O", "P", "Q", "R", "S", "T", "U", "V", "W", "X", "Y",
     "Z"}

IsDigit(c) == \E d \in 1..10 : Digits[d] = c

DigitValue(c) == (CHOOSE d \in 1..10 : Digits[d] = c) - 1

AllDigits(s) == \A i \in 1..Len(s) : IsDigit(s[i])

\* The value of a string of decimal digits.
RECURSIVE DecimalValue(_)
DecimalValue(s) ==
    IF s = <<>> THEN 0
    ELSE 10 * DecimalValue(SubSeq(s, 1, Len(s) - 1)) + DigitValue(s[Len(s)])

\* The longest literal whose value is computed.
MaxDigits == 9

\* Result<T, ParseIntError>
ParseOk(v) == [ok |-> TRUE, v |-> v]
ParseErr == [ok |-> FALSE, v |-> 0]

\* str::parse::<T>() for an integer type: an optional sign (a minus only
\* for a signed type), then digits only, and a value the type holds.
\* Literals of up to MaxDigits digits are valued; longer ones, which no
\* token of the model is, count as out of range.
ParseInt(s, signed, max) ==
    LET sign   == Len(s) > 0 /\ (s[1] = "+" \/ (s[1] = "-" /\ signed))
        digits == IF sign THEN Tail(s) ELSE s
    IN  IF digits = <<>> \/ ~AllDigits(digits) \/ Len(digits) > MaxDigits THEN ParseErr
        ELSE IF DecimalValue(digits) > max THEN ParseErr
        ELSE IF Len(s) > 0 /\ s[1] = "-" THEN ParseOk(0 - DecimalValue(digits))
        ELSE ParseOk(DecimalValue(digits))

ParseI32(s) == ParseInt(s, TRUE, 2147483647)
ParseU16(s) == ParseInt(s, FALSE, 65535)
ParseU32(s) == ParseInt(s, FALSE, 999999999)

\* The position of the first dot of s, 0 when it has none.
FirstDot(s) ==
    IF \E i \in 1..Len(s) : s[i] = DOT
    THEN CHOOSE i \in 1..Len(s) : s[i] = DOT /\ \A j \in 1..(i - 1) : s[j] # DOT
    ELSE 0

\* number_regex ^\d+(\.\d*)?$
IsNumber(s) ==
    LET d == FirstDot(s)
    IN  IF d = 0 THEN Len(s) > 0 /\ AllDigits(s)
        ELSE d > 1 /\ AllDigits(SubSeq(s, 1, d - 1)) /\ AllDigits(SubSeq(s, d + 1, Len(s)))

\* directive_regex ^\$[A-Za-z]+$
IsDirective(s) ==
    Len(s) > 1 /\ s[1] = "$" /\ \A i \in 2..Len(s) : s[i] \in Letters

\* push_token: the type of a token that has none yet
TokenTypeOf(token) ==
    IF IsNumber(token) THEN "TypeNumber"
    ELSE IF IsDirective(token) THEN "TypeDirective"
    ELSE "TypeToken"

\* One octet of a dotted quad: one to three digits, no leading zero, at
\* most 255.
IsOctet(s) ==
    /\ Len(s) \in 1..3
    /\ AllDigits(s)
    /\ (Len(s) > 1 => s[1] # "0")
    /\ DecimalValue(s) <= 255

\* The parts of s between its dots.
RECURSIVE SplitDots(_)
SplitDots(s) ==
    IF FirstDot(s) = 0 THEN <<s>>
    ELSE <<SubSeq(s, 1, FirstDot(s) - 1)>> \o SplitDots(SubSeq(s, FirstDot(s) + 1, Len(s)))

\* Ipv4Addr::from_str: four octets; the address is kept as its octets
Ipv4FromStr(s) ==
    LET parts == SplitDots(s)
    IN  IF Len(parts) = 4 /\ \A i \in 1..4 : IsOctet(parts[i])
        THEN ParseOk([i \in 1..4 |-> DecimalValue(parts[i])])
        ELSE ParseErr

-----------------------------------------------------------------------------
(* ZoneRecord::create and the from_iter of records and directives *)

\* Result<Box<dyn IZoneRecord>, String>
RecordOk(rec) == [ok |-> TRUE, rec |-> rec, err |-> ""]
RecordErr(msg) == [ok |-> FALSE, rec |-> ZoneDirective(<<>>, <<>>), err |-> msg]

\* Default for ZoneRecord
DefaultZoneRecord == ZoneRecord(RecordName(<<>>, <<>>), 0, "C_IN", "RecordTypeOther", None, None)

\* RecordName::new
RecordNameNew(dn) == RecordName(dn, IF EndsWithDot(dn) THEN dn ELSE <<>>)

\* The literal of a token is one of IN, CS, CH, HS, letter case aside.
IsClassToken(token) ==
    UpperCase(token) \in {<<"I", "N">>, <<"C", "S">>, <<"C", "H">>, <<"H", "S">>}

\* NSClass::from_string
NSClassFromString(instr) ==
    CASE UpperCase(instr) = <<"I", "N">> -> "C_IN"
      [] UpperCase(instr) = <<"C", "H">> -> "C_CHAOS"
      [] UpperCase(instr) = <<"H", "S">> -> "C_HS"
      [] OTHER -> "C_INVALID"

\* RecordType::from_string, on the type names the model uses
RecordTypeFromString(instr) ==
    CASE UpperCase(instr) = <<"A">> -> "A"
      [] UpperCase(instr) = <<"N", "S">> -> "NS"
      [] UpperCase(instr) = <<"M", "X">> -> "MX"
      [] UpperCase(instr) = <<"S", "O", "A">> -> "SOA"
      [] UpperCase(instr) = <<"C", "N", "A", "M", "E">> -> "CNAME"
      [] OTHER -> "RecordTypeOther"

\* struct RDATAmx, struct RDATAsoa
RDATAmx(weight, target) == [rdata_type |-> "RDATAmx", weight |-> weight, target |-> target]
RDATAsoa(mname, rname, numbers) ==
    [rdata_type |-> "RDATAsoa", mname |-> mname, rname |-> rname, numbers |-> numbers]

\* Result<(), String> of from_tokens, with the RDATA it filled
RdataOk(rdata) == [ok |-> TRUE, rdata |-> rdata, err |-> ""]
RdataErr(msg) == [ok |-> FALSE, rdata |-> RDATAgeneric(<<>>), err |-> msg]

\* ZoneToken::ignore_white: every token left is whitespace
IgnoreWhite(tokens) == \A i \in 1..Len(tokens) : tokens[i].token_type = "TypeWhite"

\* RDATAa::from_tokens
RDATAaFromTokens(tokens) ==
    IF tokens = <<>> THEN RdataErr("Expected token, got EOL")
    ELSE IF ~Ipv4FromStr(tokens[1].token).ok THEN RdataErr("invalid IPv4 address syntax")
    ELSE IF ~IgnoreWhite(Tail(tokens)) THEN RdataErr("Expected whitespace or empty")
    ELSE RdataOk(RDATAa(Ipv4FromStr(tokens[1].token).v))

\* RDATANameRR::from_tokens
RDATANameRRFromTokens(tokens) ==
    IF tokens = <<>> THEN RdataErr("Expected token, got EOL")
    ELSE IF ~IgnoreWhite(Tail(tokens)) THEN RdataErr("Expected whitespace or empty")
    ELSE RdataOk(RDATANameRR(RecordNameNew(tokens[1].token)))

\* RDATAmx::from_tokens
RDATAmxFromTokens(tokens) ==
    IF tokens = <<>> THEN RdataErr("Expected token, got EOL")
    ELSE IF tokens[1].token_type # "TypeNumber" THEN RdataErr("expected number for mx weight")
    ELSE IF ~ParseU16(tokens[1].token).ok THEN RdataErr("invalid TTL")
    ELSE IF Len(tokens) < 2 THEN RdataErr("Expected token, got EOL")
    ELSE IF ~IgnoreWhite(SubSeq(tokens, 3, Len(tokens)))
         THEN RdataErr("Expected whitespace or empty")
    ELSE RdataOk(RDATAmx(ParseU16(tokens[1].token).v, RecordNameNew(tokens[2].token)))

\* expect_non_white twice, then expect_int::<u32> five times: the error
\* of the first of the seven that fails, "" when none does.
RECURSIVE SoaError(_, _)
SoaError(tokens, i) ==
    IF i > 7 THEN ""
    ELSE IF Len(tokens) < i THEN "Expected token, got EOL"
    ELSE IF i <= 2 /\ tokens[i].token_type = "TypeWhite" THEN "expected number for mx weight"
    ELSE IF i > 2 /\ tokens[i].token_type # "TypeNumber" THEN "expected number for mx weight"
    ELSE IF i > 2 /\ ~ParseU32(tokens[i].token).ok THEN "invalid Number"
    ELSE SoaError(tokens, i + 1)

\* RDATAsoa::from_tokens: two names taken as literals, then five numbers;
\* tokens after the seventh are not looked at.
RDATAsoaFromTokens(tokens) ==
    IF SoaError(tokens, 1) # "" THEN RdataErr(SoaError(tokens, 1))
    ELSE RdataOk(RDATAsoa(RecordName(tokens[1].token, <<>>), RecordName(tokens[2].token, <<>>),
                          [i \in 1..5 |-> ParseU32(tokens[i + 2].token).v]))

\* RDATAgeneric::from_tokens
RDATAgenericFromTokens(tokens) == RdataOk(RDATAgeneric(tokens))

\* rr::create_from_type, then from_tokens of the struct created
FromTokens(record_type, tokens) ==
    CASE create_from_type(record_type) = "RDATAa" -> RDATAaFromTokens(tokens)
      [] create_from_type(record_type) = "RDATANameRR" -> RDATANameRRFromTokens(tokens)
      [] create_from_type(record_type) = "RDATAmx" -> RDATAmxFromTokens(tokens)
      [] create_from_type(record_type) = "RDATAsoa" -> RDATAsoaFromTokens(tokens)
      [] OTHER -> RDATAgenericFromTokens(tokens)

\* Lines 581-586 of from_iter: the RDATA read from the tokens kept for it.
FromIterRdata(rec, rdata_tokens) ==
    LET Finish(r) == IF r.ok THEN RecordOk([rec EXCEPT !.rdata = Some(r.rdata)])
                     ELSE RecordErr(r.err)
    IN  Finish(FromTokens(rec.record_type, rdata_tokens))

\* The loop of ZoneRecord::from_iter (lines 511-579) over the tokens after
\* the owner: whitespace is skipped, a token is read at the position
\* rec_pos, and the token after it has to be whitespace.
RECURSIVE FromIterLoop(_, _, _, _)
FromIterLoop(tokens, rec_pos, rec, rdata_tokens) ==
    IF tokens = <<>> THEN FromIterRdata(rec, rdata_tokens)
    ELSE IF Head(tokens).token_type = "TypeWhite"
    THEN FromIterLoop(Tail(tokens), rec_pos, rec, rdata_tokens)
    ELSE
        LET tok  == Head(tokens)
            rest == IF Len(tokens) >= 2 THEN SubSeq(tokens, 3, Len(tokens)) ELSE <<>>
            unspaced == Len(tokens) >= 2 /\ tokens[2].token_type # "TypeWhite"
            Go(pos, r, rd) ==
                IF unspaced THEN RecordErr("Expected whitespace")
                ELSE FromIterLoop(rest, pos, r, rd)
        IN  CASE rec_pos = "TTL" ->
                    IF ParseI32(tok.token).ok
                    THEN Go("IN", [rec EXCEPT !.ttl = ParseI32(tok.token).v], rdata_tokens)
                    ELSE IF IsClassToken(tok.token)
                    THEN Go("RTYPE", [rec EXCEPT !.class = NSClassFromString(tok.token)],
                            rdata_tokens)
                    ELSE RecordErr("invalid TTL")
              [] rec_pos = "IN" ->
                    IF IsClassToken(tok.token)
                    THEN Go("RTYPE", [rec EXCEPT !.class = NSClassFromString(tok.token)],
                            rdata_tokens)
                    ELSE RecordErr("Record class is of an invalid type")
              [] rec_pos = "RTYPE" ->
                    Go("RDATA",
                       [rec EXCEPT !.record_type = RecordTypeFromString(tok.token),
                                   !.record_type_other =
                                       IF RecordTypeFromString(tok.token) = "RecordTypeOther"
                                       THEN Some(tok.token) ELSE None],
                       rdata_tokens)
              [] OTHER -> Go("RDATA", rec, Append(rdata_tokens, tok))

\* ZoneRecord::from_iter
ZoneRecordFromIter(rec, tokens) == FromIterLoop(tokens, "TTL", rec, <<>>)

\* ZoneDirective::from_iter: the value is the first token that is not
\* whitespace
ZoneDirectiveFromIter(name, tokens) ==
    LET rest == SelectSeq(tokens, LAMBDA m : m.token_type # "TypeWhite")
    IN  IF rest = <<>> THEN RecordErr("EOL") ELSE RecordOk(ZoneDirective(name, rest[1].token))

\* ZoneRecord::create
ZoneRecordCreate(line) ==
    IF line = <<>> THEN RecordErr("EOL")
    ELSE IF Len(Head(line).token) > 0 /\ Head(line).token[1] = "$"
    THEN ZoneDirectiveFromIter(Tail(Head(line).token), Tail(line))
    ELSE ZoneRecordFromIter([DefaultZoneRecord EXCEPT !.name.name = Head(line).token],
                            Tail(line))

-----------------------------------------------------------------------------
(* The second loop of Zone::create: origins and default ttl *)

\* RecordName::origin
RecordNameOrigin(name, origin) ==
    IF Len(name.fqdn) # 0 THEN name
    ELSE IF name.name = <<"@">> THEN [name EXCEPT !.fqdn = origin]
    ELSE IF ~EndsWithDot(name.name)
    THEN [name EXCEPT !.fqdn = (IF Len(name.name) > 0 /\ name.name[1] = DOT
                                THEN name.name ELSE Append(name.name, DOT)) \o origin]
    ELSE [name EXCEPT !.fqdn = name.name]

\* RecordRDATA::origin of each struct
RdataOrigin(rdata, origin) ==
    CASE rdata.rdata_type = "RDATANameRR" ->
            [rdata EXCEPT !.name = RecordNameOrigin(@, origin)]
      [] rdata.rdata_type = "RDATAmx" ->
            [rdata EXCEPT !.target = RecordNameOrigin(@, origin)]
      [] rdata.rdata_type = "RDATAsoa" ->
            [rdata EXCEPT !.mname = RecordNameOrigin(@, origin),
                          !.rname = RecordNameOrigin(@, origin)]
      [] OTHER -> rdata

\* ZoneRecord::origin
ZoneRecordOrigin(rec, origin) ==
    [rec EXCEPT !.name = RecordNameOrigin(@, origin),
                !.rdata = IF @.some THEN Some(RdataOrigin(@.v, origin)) ELSE @]

\* The record left with the ttl it has when a default precedes it.
DefaultTtlNever(rec, ttl) == rec

\* Lines 71-73 of zone.rs: a record with ttl 0 takes the default.
DefaultTtl(rec, ttl) == IF rec.ttl = 0 THEN [rec EXCEPT !.ttl = ttl] ELSE rec

\* Lines 53-65 of zone.rs: what a directive does to origin and ttl.
DirectiveStep(local, b) ==
    IF EqIgnoreAsciiCase(b.name, <<"O", "R", "I", "G", "I", "N">>)
    THEN [local EXCEPT !.origin = b.value]
    ELSE IF EqIgnoreAsciiCase(b.name, <<"T", "T", "L">>) /\ ParseI32(b.value).ok
    THEN [local EXCEPT !.ttl = ParseI32(b.value).v]
    ELSE local


-----------------------------------------------------------------------------
(* Inputs: zone files as the tokenizer hands them to Zone::create *)

\* The longest zone file, in logical lines.
MaxLines == 3

\* A logical line of the given literals, one blank between two of them.
ZoneLineOf(texts, line_no) ==
    [k \in 1..(2 * Len(texts) - 1) |->
        IF k % 2 = 1
        THEN ZoneToken(texts[(k + 1) \div 2], TokenTypeOf(texts[(k + 1) \div 2]), line_no)
        ELSE ZoneToken(<<" ">>, "TypeWhite", line_no)]

\* A file of logical lines, the first on line 1.
ZoneLinesOf(file) == [n \in 1..Len(file) |-> ZoneLineOf(file[n], n)]

TokIN == <<"I", "N">>
TokNS == <<"N", "S">>
TokTTL == <<"$", "T", "T", "L">>
TokORIGIN == <<"$", "O", "R", "I", "G", "I", "N">>
TokCo == <<"c", "o", ".">>

\* ttl and class literals
TtlTokens == {<<"0">>, <<"5">>}
ClassTokens == {TokIN, <<"C", "S">>, <<"C", "H">>, <<"h", "s">>}

\* What may stand between the owner and the type: nothing, a ttl, a
\* class, or both in either order.
Prefixes ==
    {<<>>} \cup {<<t>> : t \in TtlTokens} \cup {<<c>> : c \in ClassTokens}
    \cup {<<t, c>> : t \in TtlTokens, c \in ClassTokens}
    \cup {<<c, t>> : t \in TtlTokens, c \in ClassTokens}

\* A type and its RDATA: a delegation, and a type the parser has no name for.
TypeRdatas == {<<TokNS, <<"n">>>>, <<<<"X">>, <<"r">>>>}

\* Record lines of every form, owner a.
FormLines == {<<<<"a">>>> \o pre \o tr : pre \in Prefixes, tr \in TypeRdatas}

\* Directives ($TTL with integer values and with 1h, $ORIGIN with and
\* without the final dot) and records with relative names, @ and absolute
\* names, with and without a ttl of their own.
FileLines ==
    { <<TokTTL, <<"5">>>>, <<TokTTL, <<"7">>>>, <<<<"$", "t", "t", "l">>, <<"1", "h">>>>,
      <<TokORIGIN, TokCo>>, <<TokORIGIN, <<"c", "o">>>>,
      <<<<"a">>, TokIN, TokNS, <<"n">>>>,
      <<<<"@">>, <<"5">>, TokIN, TokNS, <<"m", ".">>>>,
      <<<<"b", ".">>, <<"0">>, TokIN, <<"M", "X">>, <<"5">>, <<"@">>>>,
      <<<<"a">>, TokIN, <<"S", "O", "A">>, <<"m">>, <<"r", ".">>,
        <<"1">>, <<"1">>, <<"1">>, <<"1">>, <<"1">>>>,
      <<<<"n">>, TokIN, <<"A">>, <<"1", ".", "2", ".", "3", ".", "4">>>> }

\* Zone files: up to MaxLines of those lines, and each form on its own.
ZoneFiles ==
    {ZoneLinesOf(f) : f \in UNION {[1..n -> FileLines] : n \in 0..MaxLines}}
    \cup {ZoneLinesOf(<<l>>) : l \in FormLines}

\* The origin Root::create is given: main passes the root.
Origins == {<<DOT>>, TokCo}

-----------------------------------------------------------------------------
(* Zone::create, line by line and record by record *)

\* ZoneLines::create returned the logical lines; no record made yet.
ZoneInit ==
    /\ \E f \in ZoneFiles, o \in Origins :
        parse = [NoParse EXCEPT !.lines = f, !.i = 1, !.origin0 = o]
    /\ create = "zone_lines"
    /\ zone = <<>>
    /\ root_addr = <<>>
    /\ perf = NoPerf
    /\ InCreate
    /\ NoQuery
    /\ NoStart
    /\ NoWire

\* Lines 38-46: ZoneRecord::create for the next line; an Err is returned
\* from Zone::create.
CreateRecord ==
    /\ create = "zone_lines"
    /\ parse.i <= Len(parse.lines)
    /\ \E r \in {ZoneRecordCreate(parse.lines[parse.i])} :
        IF r.ok
        THEN /\ zone' = Append(zone, r.rec)
             /\ parse' = [parse EXCEPT !.i = @ + 1]
             /\ UNCHANGED create
        ELSE /\ create' = "failed"
             /\ parse' = [parse EXCEPT !.err = r.err]
             /\ UNCHANGED zone
    /\ UNCHANGED <<rootVars, auditVars, mainVars, perfVars, tokVars, queryVars, startVars, wireVars>>

\* Lines 48-49: every line made a record; origin and ttl are set up.
StartOrigins ==
    /\ create = "zone_lines"
    /\ parse.i > Len(parse.lines)
    /\ create' = "zone_origin"
    /\ parse' = [parse EXCEPT !.i = 1, !.origin = parse.origin0, !.ttl = 0, !.parsed = zone]
    /\ UNCHANGED <<zone, rootVars, auditVars, mainVars, perfVars, tokVars, queryVars, startVars, wireVars>>

\* Lines 51-79, one record: a directive moves origin or ttl, a record is
\* resolved against the origin and takes the default ttl.
ResolveRecord ==
    /\ create = "zone_origin"
    /\ parse.i <= Len(zone)
    /\ IF IsZoneRecord(zone[parse.i])
       THEN /\ zone' = [zone EXCEPT ![parse.i] =
                            DefaultTtl(ZoneRecordOrigin(@, parse.origin), parse.ttl)]
            /\ parse' = [parse EXCEPT !.i = @ + 1]
       ELSE /\ parse' = [DirectiveStep(parse, zone[parse.i]) EXCEPT !.i = @ + 1]
            /\ UNCHANGED zone
    /\ UNCHANGED <<create, rootVars, auditVars, mainVars, perfVars, tokVars, queryVars, startVars, wireVars>>

\* Line 81: Ok(zone)
ZoneReturn ==
    /\ create = "zone_origin"
    /\ parse.i > Len(zone)
    /\ create' = "from_file"
    /\ UNCHANGED <<zone, parse, rootVars, auditVars, mainVars, perfVars, tokVars, queryVars, startVars, wireVars>>

ZoneNext == CreateRecord \/ StartOrigins \/ ResolveRecord \/ ZoneReturn

SpecZone == ZoneInit /\ [][ZoneNext]_vars

\* Record n of the file is a $TTL directive with an integer value.
IsTtlDirective(n) ==
    /\ ~IsZoneRecord(parse.parsed[n])
    /\ UpperCase(parse.parsed[n].name) = <<"T", "T", "L">>
    /\ ParseI32(parse.parsed[n].value).ok

\* The $TTL directives with an integer value before record n.
TtlDirectivesBefore(n) == {k \in 1..(n - 1) : IsTtlDirective(k)}

\* C14: once Zone::create returns, a record whose own line gave it ttl 0
\* carries the value of the last $TTL directive with an integer value
\* before it ($TTL directives with other values and directives after it
\* do not count), and a record whose own line gave it another ttl keeps
\* that ttl.
C14_DefaultTtl ==
    create = "from_file" =>
        \A n \in 1..Len(parse.parsed) :
            IsZoneRecord(parse.parsed[n]) =>
                IF parse.parsed[n].ttl # 0 THEN zone[n].ttl = parse.parsed[n].ttl
                ELSE TtlDirectivesBefore(n) # {} =>
                        zone[n].ttl =
                            ParseI32(parse.parsed[Max(TtlDirectivesBefore(n))].value).v

\* $TTL 5, then $ttl 1h, then a record without a ttl: it carries 5.
C14_Witness ==
    /\ create = "from_file"
    /\ Len(zone) = 3
    /\ IsTtlDirective(1)
    /\ ~IsZoneRecord(parse.parsed[2]) /\ ~IsTtlDirective(2)
    /\ UpperCase(parse.parsed[2].name) = <<"T", "T", "L">>
    /\ IsZoneRecord(parse.parsed[3])
    /\ parse.parsed[3].ttl = 0
    /\ zone[3].ttl = 5


\* Record n of the file is a $ORIGIN directive.
IsOriginDirective(n) ==
    /\ ~IsZoneRecord(parse.parsed[n])
    /\ UpperCase(parse.parsed[n].name) = <<"O", "R", "I", "G", "I", "N">>

\* The origin in force at record n: the value of the last $ORIGIN
\* directive before it, the origin Zone::create was given when there is none.
OriginAt(n) ==
    IF \E k \in 1..(n - 1) : IsOriginDirective(k)
    THEN parse.parsed[Max({k \in 1..(n - 1) : IsOriginDirective(k)})].value
    ELSE parse.origin0

\* The name a literal stands for under an origin, as C15 states it.
Resolved(literal, origin) ==
    IF EndsWithDot(literal) THEN literal
    ELSE IF literal = <<"@">> THEN origin
    ELSE literal \o <<DOT>> \o origin

\* The names of a record: its owner and the names inside its RDATA.
NamesOf(rec) ==
    {rec.name}
    \cup (IF rec.rdata.v.rdata_type = "RDATANameRR" THEN {rec.rdata.v.name} ELSE {})
    \cup (IF rec.rdata.v.rdata_type = "RDATAmx" THEN {rec.rdata.v.target} ELSE {})
    \cup (IF rec.rdata.v.rdata_type = "RDATAsoa"
          THEN {rec.rdata.v.mname, rec.rdata.v.rname} ELSE {})

\* C15: once Zone::create returns, the owner of every record and every
\* name inside NS, CNAME, DNAME, MX and SOA RDATA has an fqdn that is not
\* empty, ends with a dot, and is the literal itself when that ends with a
\* dot, the origin in force for the literal @, and the literal, a dot and
\* the origin in force otherwise.
C15_FqdnResolved ==
    create = "from_file" =>
        \A n \in 1..Len(zone) :
            IsZoneRecord(zone[n]) =>
                \A name \in NamesOf(zone[n]) :
                    /\ name.fqdn # <<>>
                    /\ EndsWithDot(name.fqdn)
                    /\ name.fqdn = Resolved(name.name, OriginAt(n))

\* After $ORIGIN co, the owner a is resolved to a.co, without a final dot.
C15_Witness ==
    /\ create = "from_file"
    /\ Len(zone) = 2
    /\ IsOriginDirective(1)
    /\ parse.parsed[1].value = <<"c", "o">>
    /\ IsZoneRecord(zone[2])
    /\ zone[2].name.fqdn = <<"a", ".", "c", "o">>


\* The literals of a logical line, whitespace left out.
TextsOf(line) ==
    LET rest == SelectSeq(line, LAMBDA t : t.token_type # "TypeWhite")
    IN  [k \in 1..Len(rest) |-> rest[k].token]

\* How many literals after the owner make up the ttl/class part.
PrefixLen(texts) ==
    LET IsTtl(k) == k <= Len(texts) /\ ParseI32(texts[k]).ok
        IsClass(k) == k <= Len(texts) /\ IsClassToken(texts[k])
    IN  IF (IsTtl(2) /\ IsClass(3)) \/ (IsClass(2) /\ IsTtl(3)) THEN 2
        ELSE IF IsTtl(2) \/ IsClass(2) THEN 1
        ELSE 0

\* The class a class literal names.
ClassNamed(token) ==
    CASE UpperCase(token) = <<"I", "N">> -> "C_IN"
      [] UpperCase(token) = <<"C", "S">> -> "C_2"
      [] UpperCase(token) = <<"C", "H">> -> "C_CHAOS"
      [] UpperCase(token) = <<"H", "S">> -> "C_HS"

\* The class a record line asks for: the one its class literal names, IN
\* when it has none.
ClassAsked(texts) ==
    IF \E k \in 2..(1 + PrefixLen(texts)) : IsClassToken(texts[k])
    THEN ClassNamed(texts[CHOOSE k \in 2..(1 + PrefixLen(texts)) : IsClassToken(texts[k])])
    ELSE "C_IN"

\* The one line of the file is a record line with a type after its
\* ttl/class part, and ZoneRecord::create has been called for it.
RecordLineRead ==
    /\ Len(parse.lines) = 1
    /\ parse.lines[1][1].token[1] # "$"
    /\ Len(TextsOf(parse.lines[1])) >= 2 + PrefixLen(TextsOf(parse.lines[1]))
    /\ create = "failed" \/ Len(zone) = 1

\* C16: a record line in any of the five forms is accepted; the literal
\* after the ttl/class part is taken as the type, the class is the one the
\* class literal names, and IN when the line has none.
C16_AllFormsAccepted ==
    RecordLineRead =>
        LET texts == TextsOf(parse.lines[1])
        IN  /\ create # "failed"
            /\ zone[1].record_type = RecordTypeFromString(texts[2 + PrefixLen(texts)])
            /\ zone[1].record_type = "RecordTypeOther" =>
                    zone[1].record_type_other = Some(texts[2 + PrefixLen(texts)])
            /\ zone[1].class = ClassAsked(texts)

\* The line `a NS n`, owner and type with neither ttl nor class, is refused.
C16_Witness ==
    /\ RecordLineRead
    /\ TextsOf(parse.lines[1]) = <<<<"a">>, TokNS, <<"n">>>>
    /\ create = "failed"
    /\ parse.err = "invalid TTL"


-----------------------------------------------------------------------------
(* ZoneLines::escape and ZoneLines::unescape, on strings of character codes *)

\* The codes of '"', '\', '0' and '9', and the limits 0x20 and 0x7f.
CodeQuote == 34
CodeBackslash == 92
CodeZero == 48
CodeNine == 57
CodeSpace == 32
CodeDel == 127
CodeMax == 255

IsDigitCode(c) == c >= CodeZero /\ c <= CodeNine

\* format!("{:03}", c): three decimal digits
ThreeDigits(c) ==
    <<CodeZero + (c \div 100), CodeZero + ((c \div 10) % 10), CodeZero + (c % 10)>>

\* Lines 449-456: a quote gets a backslash, a character below 0x20 or
\* from 0x7f on becomes \DDD, any other character (the backslash too) is
\* copied.
EscapeChar(c) ==
    IF c = CodeQuote THEN <<CodeBackslash, c>>
    ELSE IF c < CodeSpace \/ c >= CodeDel THEN <<CodeBackslash>> \o ThreeDigits(c)
    ELSE <<c>>

\* ZoneLines::escape
RECURSIVE escape(_)
escape(in_str) ==
    IF in_str = <<>> THEN <<>> ELSE EscapeChar(Head(in_str)) \o escape(Tail(in_str))

\* The rest of s from position k on.
From(s, k) == SubSeq(s, k, Len(s))

\* ZoneLines::unescape: a backslash before a digit starts \DDD, which
\* gives the character of that code when two more digits follow and the
\* number fits a u8, the three characters when it does not fit, and
\* nothing when the two characters that follow are not both digits; the
\* string ending inside it leaves the characters read; a backslash before
\* any other character gives that character; a final backslash stays.
RECURSIVE unescape(_)
unescape(in_str) ==
    IF in_str = <<>> THEN <<>>
    ELSE IF in_str[1] # CodeBackslash THEN <<in_str[1]>> \o unescape(Tail(in_str))
    ELSE IF Len(in_str) = 1 THEN <<in_str[1]>>
    ELSE IF ~IsDigitCode(in_str[2]) THEN <<in_str[2]>> \o unescape(From(in_str, 3))
    ELSE IF Len(in_str) = 2 THEN <<in_str[2]>>
    ELSE IF Len(in_str) = 3 THEN <<in_str[2], in_str[3]>>
    ELSE IF ~(IsDigitCode(in_str[3]) /\ IsDigitCode(in_str[4])) THEN unescape(From(in_str, 5))
    ELSE LET t == 100 * (in_str[2] - CodeZero) + 10 * (in_str[3] - CodeZero)
                  + (in_str[4] - CodeZero)
         IN  (IF t <= CodeMax THEN <<t>> ELSE <<in_str[2], in_str[3], in_str[4]>>)
             \o unescape(From(in_str, 5))

-----------------------------------------------------------------------------
(* Inputs: strings to escape *)

\* The longest string escaped, in characters.
MaxText == 3

\* A tab, a quote, two digits, a backslash, a letter, DEL and a character
\* above it.
TextCodes == {9, CodeQuote, CodeZero, 49, CodeBackslash, 97, CodeDel, 200}

Texts == UNION {[1..n -> TextCodes] : n \in 0..MaxText}

-----------------------------------------------------------------------------
(* A string written out with escape and read back with unescape *)

EscapeInit ==
    /\ \E s \in Texts : text = [NoText EXCEPT !.pc = "escape", !.in_str = s]
    /\ tokenizer = NoTokenizer
    /\ zone = <<>>
    /\ create = "none"
    /\ parse = NoParse
    /\ perf = NoPerf
    /\ root_addr = <<>>
    /\ call = NoCall
    /\ learned = {}
    /\ audit = NoAudit
    /\ NoMain
    /\ NoQuery
    /\ NoStart
    /\ NoWire

\* ZoneToken::to_string of a string token: the text escaped
Escape ==
    /\ text.pc = "escape"
    /\ text' = [text EXCEPT !.pc = "unescape", !.escaped = escape(text.in_str)]
    /\ UNCHANGED <<tokenizer, rootVars, auditVars, mainVars, fileVars, perfVars, queryVars, startVars, wireVars>>

\* get_record_tokens at the closing quote: the text unescaped
Unescape ==
    /\ text.pc = "unescape"
    /\ text' = [text EXCEPT !.pc = "done", !.unescaped = unescape(text.escaped)]
    /\ UNCHANGED <<tokenizer, rootVars, auditVars, mainVars, fileVars, perfVars, queryVars, startVars, wireVars>>

EscapeNext == Escape \/ Unescape

SpecEscape == EscapeInit /\ [][EscapeNext]_vars

\* C20: a string escaped and then unescaped is the string itself.
C20_RoundTrip == text.pc = "done" => text.unescaped = text.in_str

\* A backslash before a letter comes back as the letter alone.
C20_Witness ==
    /\ text.pc = "done"
    /\ text.in_str = <<CodeBackslash, 97>>
    /\ text.escaped = <<CodeBackslash, 97>>
    /\ text.unescaped = <<97>>


-----------------------------------------------------------------------------
(* ZoneLines::get_record_tokens, byte by byte *)

QUOTE == "\""
NL == "\n"

\* The characters the model reads and their codes (buffer[idx] as char).
CharCodes ==
    {<<"\t", 9>>, <<NL, 10>>, <<"\r", 13>>, <<" ", CodeSpace>>, <<QUOTE, CodeQuote>>,
     <<"(", 40>>, <<")", 41>>, <<";", 59>>, <<BSL, CodeBackslash>>, <<"a", 97>>,
     <<"b", 98>>}

CodeOf(c) == (CHOOSE p \in CharCodes : p[1] = c)[2]
CharOf(n) == (CHOOSE p \in CharCodes : p[2] = n)[1]

\* ZoneLines::unescape on a String of those characters
UnescapeString(token) ==
    LET Chars(codes) == [k \in 1..Len(codes) |-> CharOf(codes[k])]
    IN  Chars(unescape([k \in 1..Len(token) |-> CodeOf(token[k])]))

\* The locals of get_record_tokens before the first byte is read.
TokenizerStart(buffer) ==
    [pc |-> "read", buffer |-> buffer, idx |-> 1, lines |-> <<>>, line |-> <<>>,
     tok |-> ZoneToken(<<>>, "TypeNone", 1), is_quote |-> FALSE, paren_ct |-> 0,
     skip_endline |-> FALSE, is_white |-> FALSE, line_no |-> 1, err |-> ""]

\* push_token: a token that is not empty joins the line, typed when it
\* has no type yet; is_white is reset and a new token begins.
PushToken(st) ==
    [st EXCEPT
        !.line = IF Len(st.tok.token) > 0
                 THEN Append(@, IF st.tok.token_type = "TypeNone"
                                THEN [st.tok EXCEPT !.token_type = TokenTypeOf(st.tok.token)]
                                ELSE st.tok)
                 ELSE @,
        !.is_white = FALSE,
        !.tok = ZoneToken(<<>>, "TypeNone", st.line_no)]

\* push_line
PushLine(st) == [st EXCEPT !.lines = Append(@, st.line), !.line = <<>>]

\* Lines 306-313 and 317-324: whitespace joins the whitespace token being
\* read or starts one.
OnWhite(st, c) ==
    IF st.is_white THEN [st EXCEPT !.tok.token = Append(@, c)]
    ELSE [PushToken(st) EXCEPT !.tok.token_type = "TypeWhite", !.tok.token = <<c>>,
                               !.is_white = TRUE]

\* A newline that closes the logical line inside parentheses too.
OnNewlineClosesLine(st, c) == PushLine(PushToken(st))

\* Lines 301-315: a newline outside parentheses closes the logical line,
\* inside them it is whitespace.
OnNewline(st, c) ==
    IF st.paren_ct = 0 THEN PushLine(PushToken(st)) ELSE OnWhite(st, c)

\* Lines 243-259: inside a quoted string.
OnQuoted(st, c) ==
    IF st.idx < Len(st.buffer) /\ c = BSL /\ st.buffer[st.idx + 1] = QUOTE
    THEN [st EXCEPT !.tok.token = @ \o <<c, QUOTE>>, !.idx = @ + 1]
    ELSE IF c = QUOTE
    THEN [PushToken([st EXCEPT !.tok.token = UnescapeString(@)]) EXCEPT !.is_quote = FALSE]
    ELSE [st EXCEPT !.tok.token = Append(@, c)]

\* Lines 260-265: inside a comment.
OnComment(st, c) == IF c = NL THEN [st EXCEPT !.skip_endline = FALSE] ELSE st

\* Lines 270-332: any other place.
OnChar(st, c) ==
    CASE c = ";" -> [PushToken(st) EXCEPT !.skip_endline = TRUE]
      [] c = "(" -> [(IF ~st.is_white THEN PushToken(st) ELSE st) EXCEPT !.paren_ct = @ + 1]
      [] c = ")" ->
            IF st.paren_ct = 0 THEN [st EXCEPT !.pc = "failed", !.err = "unmatched )"]
            ELSE [(IF ~st.is_white THEN PushToken(st) ELSE st) EXCEPT !.paren_ct = @ - 1]
      [] c = QUOTE -> [PushToken(st) EXCEPT !.tok.token_type = "TypeString", !.is_quote = TRUE]
      [] c = NL -> OnNewline(st, c)
      [] c \in {"\r", " ", "\t"} -> OnWhite(st, c)
      [] OTHER -> [(IF st.is_white THEN PushToken(st) ELSE st) EXCEPT
                        !.tok.token = Append(@, c)]

\* Lines 237-337, one turn of the loop over the bytes read.
TokenizerStep(st) ==
    LET c   == st.buffer[st.idx]
        st1 == IF c = NL THEN [st EXCEPT !.line_no = @ + 1] ELSE st
        Advance(r) == IF r.pc = "failed" THEN r ELSE [r EXCEPT !.idx = @ + 1]
    IN  Advance(IF st1.is_quote THEN OnQuoted(st1, c)
                ELSE IF st1.skip_endline THEN OnComment(st1, c)
                ELSE OnChar(st1, c))

\* Lines 344-352: the file read, the token and the line in progress are
\* pushed when they are not empty.
TokenizerEnd(st) ==
    LET Last(r) == IF Len(r.line) > 0 THEN PushLine(r) ELSE r
    IN  [Last(IF Len(st.tok.token) > 0 THEN PushToken(st) ELSE st) EXCEPT !.pc = "done"]

RECURSIVE TokenizerRun(_)
TokenizerRun(st) ==
    IF st.pc # "read" THEN st
    ELSE IF st.idx > Len(st.buffer) THEN TokenizerEnd(st)
    ELSE TokenizerRun(TokenizerStep(st))

\* ZoneLines::get_record_tokens: Ok(lines) or Err
get_record_tokens(buffer) ==
    LET Result(st) == [ok |-> st.pc = "done",
                       lines |-> IF st.pc = "done" THEN st.lines ELSE <<>>]
    IN  Result(TokenizerRun(TokenizerStart(buffer)))

-----------------------------------------------------------------------------
(* Inputs: the bytes of a zone file *)

\* The longest file tokenized, in bytes.
MaxBuffer == 5

\* A letter, a blank, the newline, the backslash, and the characters that
\* open a comment, a group and a quoted string.
BufferChars == {"a", " ", NL, ";", "(", ")", QUOTE, BSL}

Buffers == UNION {[1..n -> BufferChars] : n \in 0..MaxBuffer}

-----------------------------------------------------------------------------
(* The tokenizer at work *)

\* ZoneLines::create opened the file.
TokenizerInit ==
    /\ \E buffer \in Buffers : tokenizer = TokenizerStart(buffer)
    /\ text = NoText
    /\ zone = <<>>
    /\ create = "none"
    /\ parse = NoParse
    /\ perf = NoPerf
    /\ root_addr = <<>>
    /\ call = NoCall
    /\ learned = {}
    /\ audit = NoAudit
    /\ NoMain
    /\ NoQuery
    /\ NoStart
    /\ NoWire

\* One byte of the buffer is looked at (two for an escaped quote).
ReadByte ==
    /\ tokenizer.pc = "read"
    /\ tokenizer.idx <= Len(tokenizer.buffer)
    /\ tokenizer' = TokenizerStep(tokenizer)
    /\ UNCHANGED <<text, rootVars, auditVars, mainVars, fileVars, perfVars, queryVars, startVars, wireVars>>

\* The end of the file is reached.
EndOfFile ==
    /\ tokenizer.pc = "read"
    /\ tokenizer.idx > Len(tokenizer.buffer)
    /\ tokenizer' = TokenizerEnd(tokenizer)
    /\ UNCHANGED <<text, rootVars, auditVars, mainVars, fileVars, perfVars, queryVars, startVars, wireVars>>

TokenizerNext == ReadByte \/ EndOfFile

SpecTokenizer == TokenizerInit /\ [][TokenizerNext]_vars


\* Where each byte of a file lies: inside a quoted string (its quotes
\* included), inside a comment (from its semicolon to the byte before the
\* newline), at the newline that ends a comment, or elsewhere; and inside
\* how many open parentheses.
RECURSIVE Scan(_, _, _, _, _)
Scan(buffer, i, mode, depth, acc) ==
    IF i > Len(buffer) THEN acc
    ELSE
        LET c == buffer[i]
            At(place) == [place |-> place, depth |-> depth]
        IN  CASE mode = "quote" ->
                    IF c = BSL /\ i < Len(buffer) /\ buffer[i + 1] = QUOTE
                    THEN Scan(buffer, i + 2, "quote", depth, acc \o <<At("quote"), At("quote")>>)
                    ELSE Scan(buffer, i + 1, IF c = QUOTE THEN "code" ELSE "quote", depth,
                              Append(acc, At("quote")))
              [] mode = "comment" ->
                    IF c = NL
                    THEN Scan(buffer, i + 1, "code", depth, Append(acc, At("comment_end")))
                    ELSE Scan(buffer, i + 1, "comment", depth, Append(acc, At("comment")))
              [] OTHER ->
                    CASE c = ";" -> Scan(buffer, i + 1, "comment", depth,
                                         Append(acc, At("comment")))
                      [] c = QUOTE -> Scan(buffer, i + 1, "quote", depth,
                                           Append(acc, At("quote")))
                      [] c = "(" -> Scan(buffer, i + 1, "code", depth + 1,
                                         Append(acc, At("code")))
                      [] c = ")" -> Scan(buffer, i + 1, "code",
                                         IF depth > 0 THEN depth - 1 ELSE 0,
                                         Append(acc, At("code")))
                      [] OTHER -> Scan(buffer, i + 1, "code", depth, Append(acc, At("code")))

Places(buffer) == Scan(buffer, 1, "code", 0, <<>>)

\* The file without its comments: the bytes from a semicolon outside
\* quotes to the end of its line are left out, the newline is kept.
StripComments(buffer) ==
    LET Kept(places) ==
            LET keep == {i \in 1..Len(buffer) : places[i].place # "comment"}
                Nth(k) == CHOOSE i \in keep : Cardinality({j \in keep : j < i}) = k - 1
            IN  [k \in 1..Cardinality(keep) |-> buffer[Nth(k)]]
    IN  Kept(Places(buffer))

\* The file with a blank for every newline inside parentheses, outside
\* quotes and comments.
ReplaceParenNewlines(buffer) ==
    LET Replaced(places) ==
            [i \in 1..Len(buffer) |->
                IF buffer[i] = NL /\ places[i].place = "code" /\ places[i].depth > 0
                THEN " " ELSE buffer[i]]
    IN  Replaced(Places(buffer))

\* The kinds of the tokens of each logical line, with the texts of those
\* that are not whitespace.
KindsAndTexts(token_lines) ==
    [l \in 1..Len(token_lines) |->
        [k \in 1..Len(token_lines[l]) |->
            [token_type |-> token_lines[l][k].token_type,
             token |-> IF token_lines[l][k].token_type = "TypeWhite" THEN <<>>
                       ELSE token_lines[l][k].token]]]

NoParens(buffer) == \A i \in 1..Len(buffer) : buffer[i] \notin {"(", ")"}

\* C17: in a file without parentheses, the comments contribute nothing
\* and the newline that ends a comment closes the logical line: the file
\* gives the logical lines that the file without its comments gives.
C17_CommentEndsLine ==
    (tokenizer.pc = "done" /\ NoParens(tokenizer.buffer)) =>
        KindsAndTexts(tokenizer.lines)
        = KindsAndTexts(get_record_tokens(StripComments(tokenizer.buffer)).lines)

\* a, a comment, and a on the next line: one logical line with both.
C17_Witness ==
    /\ tokenizer.pc = "done"
    /\ tokenizer.buffer = <<"a", ";", NL, "a">>
    /\ Len(tokenizer.lines) = 1
    /\ Len(tokenizer.lines[1]) = 2

\* C18: no logical line emitted is without a token or made of whitespace
\* tokens only.
C18_NoEmptyLogicalLine ==
    tokenizer.pc = "done" =>
        \A l \in 1..Len(tokenizer.lines) :
            \E k \in 1..Len(tokenizer.lines[l]) :
                tokenizer.lines[l][k].token_type # "TypeWhite"

\* A blank line after a record line: a second logical line, without a token.
C18_Witness ==
    /\ tokenizer.pc = "done"
    /\ tokenizer.buffer = <<"a", NL, NL>>
    /\ Len(tokenizer.lines) = 2
    /\ tokenizer.lines[2] = <<>>

\* C19: the file with a blank for every newline inside parentheses
\* (outside quotes and comments) is refused when the file is, and gives
\* otherwise the same logical lines with the same token kinds and the
\* same texts of the tokens that are not whitespace; and reading a
\* newline inside parentheses never adds a logical line.
C19_ParenNewlineIsBlank ==
    /\ [](tokenizer.pc \in {"done", "failed"} =>
            LET Same(r) == /\ r.ok = (tokenizer.pc = "done")
                           /\ r.ok => KindsAndTexts(r.lines) = KindsAndTexts(tokenizer.lines)
            IN  Same(get_record_tokens(ReplaceParenNewlines(tokenizer.buffer))))
    /\ [][(/\ tokenizer.pc = "read"
           /\ tokenizer.idx <= Len(tokenizer.buffer)
           /\ tokenizer.buffer[tokenizer.idx] = NL
           /\ tokenizer.paren_ct > 0)
          => tokenizer'.lines = tokenizer.lines]_vars

\* A group over two lines read to its end: one logical line, the newline
\* a whitespace token between the two letters.
C19_Witness ==
    /\ tokenizer.pc = "done"
    /\ tokenizer.buffer = <<"(", "a", NL, "a", ")">>
    /\ Len(tokenizer.lines) = 1
    /\ Len(tokenizer.lines[1]) = 3
    /\ tokenizer.lines[1][2].token = <<NL>>
    /\ tokenizer.lines[1][2].token_type = "TypeWhite"


-----------------------------------------------------------------------------
(* main: from the command line to the first pass (main.rs 44-184) *)

\* The exit status of a process whose main thread panicked.
PanicStatus == 101

\* exit(1) after the usage message
ExitOne(error) ==
    /\ main' = [main EXCEPT !.pc = "exited", !.exited = TRUE, !.status = 1]
    /\ cmdline' = [pc |-> "exited", error |-> error]
    /\ UNCHANGED args

\* panic!, expect
Panic(error) ==
    /\ main' = [main EXCEPT !.pc = "exited", !.exited = TRUE, !.status = PanicStatus]
    /\ cmdline' = [pc |-> "exited", error |-> error]
    /\ UNCHANGED args

\* What getopts makes of the arguments: an error (an unknown flag, a flag
\* without its argument), or the matches.
OptsParsed == {"Err", "Ok"}
\* -w: absent, a u64, or something else
WatchArgs == {"none", "u64", "invalid"}
\* --root-zone
RootZoneArgs == {"none", "path"}
\* -c: absent, a file that cannot be read, text that is not the JSON of a
\* list of targets, or such a list
JsonFiles ==
    {[kind |-> k, list |-> <<>>] : k \in {"none", "unreadable", "invalid"}}
    \cup {[kind |-> "list", list |-> c] : c \in LocalConfigs}
\* The root zone file: cannot be opened, refused by the tokenizer or by
\* the record parser, or read.
RootZoneFiles == {"unreadable", "tokens", "records", "read"}
\* -o: absent or "-", a file that cannot be created, or one that can
OutFiles == {"stdout", "refused", "created"}
\* --cache-in and --cache-out
CacheArgs == {"none", "in_unreadable", "in_read", "out_refused", "out_written"}
\* --threads: absent, an i32, or something else
ThreadArgs ==
    {[kind |-> k, v |-> 1] : k \in {"none", "invalid"}}
    \cup {[kind |-> "i32", v |-> t] : t \in ThreadCounts}

StartupInit ==
    /\ cmdline = [pc |-> "opts", error |-> "none"]
    /\ split = NoSplit
    /\ args = NoArgs
    /\ main = [pc |-> "none", pass |-> 0, exited |-> FALSE, status |-> 0]
    /\ requests = <<>>
    /\ workers = <<>>
    /\ code = 0
    /\ results = <<>>
    /\ history = {}
    /\ root_addr = IndexOf({ZoneCo})
    /\ call = NoCall
    /\ learned = {}
    /\ audit = NoAudit
    /\ NoFile
    /\ NoQuery
    /\ NoWire

StartupUnchanged ==
    UNCHANGED <<rootVars, auditVars, requests, workers, code, results, history,
                fileVars, perfVars, tokVars, queryVars, split, wireVars>>

\* Lines 60-71: opts.parse, -h
ParseOpts ==
    /\ cmdline.pc = "opts"
    /\ \E parsed \in OptsParsed, help \in BOOLEAN :
        IF parsed = "Err" THEN ExitOne("flag")
        ELSE IF help THEN ExitOne("help")
        ELSE /\ cmdline' = [cmdline EXCEPT !.pc = "watch"]
             /\ UNCHANGED <<args, main>>
    /\ StartupUnchanged

\* Lines 75-87: -w and --all
ReadWatch ==
    /\ cmdline.pc = "watch"
    /\ \E w \in WatchArgs, all \in BOOLEAN :
        IF w = "invalid" THEN ExitOne("flag")
        ELSE /\ args' = [args EXCEPT !.watch = (w = "u64"), !.all = all]
             /\ cmdline' = [cmdline EXCEPT !.pc = "root_zone"]
             /\ UNCHANGED main
    /\ StartupUnchanged

\* Lines 89-95: --root-zone
ReadRootZone ==
    /\ cmdline.pc = "root_zone"
    /\ \E file_name \in RootZoneArgs :
        IF file_name = "none" THEN ExitOne("flag")
        ELSE /\ cmdline' = [cmdline EXCEPT !.pc = "json"]
             /\ UNCHANGED <<args, main>>
    /\ StartupUnchanged

\* Lines 97-124: -c
ReadJson ==
    /\ cmdline.pc = "json"
    /\ \E json_file \in JsonFiles :
        CASE json_file.kind = "none" ->
                /\ args' = [args EXCEPT !.local_config = <<>>]
                /\ cmdline' = [cmdline EXCEPT !.pc = "root"]
                /\ UNCHANGED main
          [] json_file.kind = "unreadable" -> Panic("json_read")
          [] json_file.kind = "invalid" -> Panic("json_parse")
          [] OTHER ->
                /\ args' = [args EXCEPT !.local_config = json_file.list]
                /\ cmdline' = [cmdline EXCEPT !.pc = "root"]
                /\ UNCHANGED main
    /\ StartupUnchanged

\* Lines 126-129: Root::create returns the error of ZoneLines::create
\* (the file not opened, the tokenizer's error) or of ZoneRecord::create.
RootCreate ==
    /\ cmdline.pc = "root"
    /\ \E file \in RootZoneFiles :
        CASE file = "unreadable" -> Panic("zone_read")
          [] file \in {"tokens", "records"} -> Panic("zone_parse")
          [] OTHER -> /\ cmdline' = [cmdline EXCEPT !.pc = "out"]
                      /\ UNCHANGED <<args, main>>
    /\ StartupUnchanged

\* Lines 131-140: -o
OpenOut ==
    /\ cmdline.pc = "out"
    /\ \E out_fn \in OutFiles :
        IF out_fn = "refused" THEN Panic("out")
        ELSE /\ cmdline' = [cmdline EXCEPT !.pc = "cache"]
             /\ UNCHANGED <<args, main>>
    /\ StartupUnchanged

\* Lines 142-167: --cache-in, --cache-out
ReadCache ==
    /\ cmdline.pc = "cache"
    /\ \E cachefn \in CacheArgs :
        IF cachefn \in {"in_unreadable", "out_refused"} THEN Panic("cache")
        ELSE /\ cmdline' = [cmdline EXCEPT !.pc = "threads"]
             /\ UNCHANGED <<args, main>>
    /\ StartupUnchanged

\* Lines 176-184: --threads; what is not an i32 counts as absent. (The
\* test of line 169 is the first thing Start does.)
ReadThreads ==
    /\ cmdline.pc = "threads"
    /\ \E v \in ThreadArgs :
        /\ args' = [args EXCEPT !.thread_ct = v.v]
        /\ cmdline' = [pc |-> "done",
                       error |-> IF v.kind = "invalid" THEN "threads" ELSE "none"]
    /\ main' = [main EXCEPT !.pc = "start"]
    /\ StartupUnchanged

\* Start, with the command line left as it is.
StartupStart == Start /\ cmdline.pc = "done"

StartupNext ==
    \/ ParseOpts
    \/ ReadWatch
    \/ ReadRootZone
    \/ ReadJson
    \/ RootCreate
    \/ OpenOut
    \/ ReadCache
    \/ ReadThreads
    \/ StartupStart

SpecStartup == StartupInit /\ [][StartupNext]_vars

\* The input errors of the claim: a flag missing or invalid, the zone file
\* unreadable or unparseable, the JSON unparseable.
InputErrors == {"flag", "zone_read", "zone_parse", "json_parse"}

\* C21: the process that met an input error has ended with exit status 1,
\* and no audit was run.
C21_InputErrorExitsOne ==
    cmdline.error \in InputErrors =>
        /\ main.exited
        /\ main.status = 1
        /\ history = {}

\* The JSON of the targets does not parse: the process has ended with the
\* status of a panic.
C21_Witness ==
    /\ cmdline.error = "json_parse"
    /\ main.exited
    /\ main.status = PanicStatus


-----------------------------------------------------------------------------
(* query.rs: integers on the wire, Header::write *)

\* u8 arithmetic: a & b, a | b, a << n
RECURSIVE BitAnd(_, _)
BitAnd(a, b) ==
    IF a = 0 \/ b = 0 THEN 0
    ELSE (a % 2) * (b % 2) + 2 * BitAnd(a \div 2, b \div 2)

BitOr(a, b) == a + b - BitAnd(a, b)

U8 == 256

Shl8(a, n) == (a * 2^n) % U8

\* u16::to_be_bytes
U16ToBeBytes(v) == <<(v \div U8) % U8, v % U8>>

\* OPCODE::as_u8 and RCODE::as_u8: the discriminants of the enums
OpcodeAsU8(opcode) ==
    CASE opcode = "O_QUERY" -> 0
      [] opcode = "O_IQUERY" -> 1
      [] opcode = "O_STATUS" -> 2
      [] opcode = "O_NOTIFY" -> 4
      [] opcode = "O_UPDATE" -> 5

RcodeNames ==
    <<"NOERROR", "FORMERR", "SERVFAIL", "NXDOMAIN", "NOTIMPL", "REFUSED", "YXDOMAIN",
      "YXRRSET", "NXRRSET", "NOTAUTH", "NOTZONE">>

RcodeAsU8(rcode) == (CHOOSE k \in 1..Len(RcodeNames) : RcodeNames[k] = rcode) - 1

\* struct Header
Header(id, qr, opcode, aa, tc, rd, ra, z, rcode, qdcount, ancount, nscount, arcount) ==
    [id |-> id, qr |-> qr, opcode |-> opcode, aa |-> aa, tc |-> tc, rd |-> rd, ra |-> ra,
     z |-> z, rcode |-> rcode, qdcount |-> qdcount, ancount |-> ancount,
     nscount |-> nscount, arcount |-> arcount]

\* A flag bit set when the field is true.
FlagBit(flag, field, bit) == IF field THEN BitOr(flag, bit) ELSE flag

\* The first flag byte as Header::write builds it (lines 722-736).
HeaderFlag1(h) ==
    LET rd == FlagBit(0, h.rd, 128)
        tc == FlagBit(rd, h.tc, 64)
        aa == FlagBit(tc, h.aa, 32)
        op == BitOr(aa, BitAnd(30, Shl8(OpcodeAsU8(h.opcode), 1)))
    IN  FlagBit(op, h.qr, 1)

\* The second flag byte (lines 739-745).
HeaderFlag2(h) ==
    LET rcode == BitAnd(240, Shl8(RcodeAsU8(h.rcode), 4))
        z     == BitOr(rcode, BitAnd(14, Shl8(h.z, 1)))
    IN  FlagBit(z, h.ra, 1)

\* Header::write
HeaderWrite(h) ==
    U16ToBeBytes(h.id) \o <<HeaderFlag1(h), HeaderFlag2(h)>> \o U16ToBeBytes(h.qdcount)
    \o U16ToBeBytes(h.ancount) \o U16ToBeBytes(h.nscount) \o U16ToBeBytes(h.arcount)

-----------------------------------------------------------------------------
(* Headers written *)

Opcodes == {"O_QUERY", "O_IQUERY", "O_STATUS", "O_NOTIFY", "O_UPDATE"}
Rcodes == {RcodeNames[k] : k \in 1..Len(RcodeNames)}
\* z: the three reserved bits
MaxZ == 7
\* id and the four counts
HeaderIds == {1, 4660}
HeaderCounts == {0, 1}

Headers ==
    {Header(id, qr, opcode, aa, tc, rd, ra, z, rcode, qd, 0, 0, 0) :
        id \in HeaderIds, qr \in BOOLEAN, opcode \in Opcodes, aa \in BOOLEAN,
        tc \in BOOLEAN, rd \in BOOLEAN, ra \in BOOLEAN, z \in 0..MaxZ, rcode \in Rcodes,
        qd \in HeaderCounts}

\* The twelve bytes of a message received, with any two flag bytes.
ReceivedHeaders ==
    {<<0, 1, flag1, flag2, 0, 1, 0, 0, 0, 0, 0, 0>> : flag1 \in 0..(U8 - 1), flag2 \in 0..(U8 - 1)}

HeaderInit ==
    /\ header \in {[pc |-> "new", h |-> h, buff |-> <<>>] : h \in Headers}
                 \cup {[pc |-> "received", buff |-> b] : b \in ReceivedHeaders}
    /\ sender = NoSender
    /\ NoStart
    /\ NoWire
    /\ NoFile
    /\ root_addr = <<>>
    /\ call = NoCall
    /\ learned = {}
    /\ audit = NoAudit
    /\ NoMain

WriteHeader ==
    /\ header.pc = "new"
    /\ header' = [header EXCEPT !.pc = "written", !.buff = HeaderWrite(header.h)]
    /\ UNCHANGED <<sender, rootVars, auditVars, mainVars, fileVars, perfVars, tokVars,
                   startVars, wireVars>>


\* 1 for a flag that is set
Bit(field) == IF field THEN 1 ELSE 0

\* C30: the header written is 12 bytes; its first flag byte holds, from the
\* most significant bit, qr, the 4 bits of opcode, aa, tc, rd, and its
\* second flag byte ra, the 3 bits of z, the 4 bits of rcode.
C30_FlagBytes ==
    header.pc = "written" =>
        LET h == header.h
        IN  /\ Len(header.buff) = 12
            /\ header.buff[3] = 128 * Bit(h.qr) + 8 * OpcodeAsU8(h.opcode) + 4 * Bit(h.aa)
                                + 2 * Bit(h.tc) + Bit(h.rd)
            /\ header.buff[4] = 128 * Bit(h.ra) + 16 * h.z + RcodeAsU8(h.rcode)

\* A query with only rd set: the first flag byte written is 0x80.
C30_Witness ==
    /\ header.pc = "written"
    /\ header.h = Header(1, FALSE, "O_QUERY", FALSE, FALSE, TRUE, FALSE, 0, "NOERROR", 1, 0, 0, 0)
    /\ header.buff = <<0, 1, 128, 0, 0, 1, 0, 0, 0, 0, 0, 0>>


-----------------------------------------------------------------------------
(* query.rs: reading the bytes of a reply *)

\* Sender::query receives into a zeroed array of BUFF_SZ bytes, and every
\* reader is handed the whole array: a read past the bytes received gives
\* zeros, a read past the array panics.  buff holds the bytes received.
BUFF_SZ == 512

\* A dot, as a byte.
CodeDot == 46

\* What a reader returns: the value and the offset after it, or a panic.
Panicked == [panic |-> TRUE, v |-> <<>>, offset |-> 0]
ReadValue(v, offset) == [panic |-> FALSE, v |-> v, offset |-> offset]

\* buff[i]
ByteAt(buff, i) == IF i < Len(buff) THEN buff[i + 1] ELSE 0

\* read_buff: buff[*offset..end].to_vec()
read_buff(buff, offset, size) ==
    IF offset + size > BUFF_SZ THEN Panicked
    ELSE ReadValue([k \in 1..size |-> ByteAt(buff, offset + k - 1)], offset + size)

\* from_be_bytes of an unsigned integer
RECURSIVE FromBeBytes(_)
FromBeBytes(bytes) ==
    IF bytes = <<>> THEN 0
    ELSE FromBeBytes(SubSeq(bytes, 1, Len(bytes) - 1)) * U8 + bytes[Len(bytes)]

\* i32::from_be_bytes
I32FromBeBytes(bytes) ==
    IF bytes[1] < 128 THEN FromBeBytes(bytes)
    ELSE FromBeBytes(<<bytes[1] - 128>> \o SubSeq(bytes, 2, 4)) - 2147483647 - 1

\* dns_read_int!(u8 | u16, buff, offset)
dns_read_int(size, buff, offset) ==
    LET Value(r) == IF r.panic THEN r ELSE ReadValue(FromBeBytes(r.v), r.offset)
    IN  Value(read_buff(buff, offset, size))

\* const COMP : u8 = 0b11000000
COMP == 192

\* What qname_namepart leaves: whether it read a label, the name so far,
\* the offset, or a panic.
NamePart(more, dn, offset) == [panic |-> FALSE, more |-> more, dn |-> dn, offset |-> offset]
NamePartPanicked == [panic |-> TRUE, more |-> FALSE, dn |-> <<>>, offset |-> 0]

RECURSIVE qname_namepart(_, _, _)
RECURSIVE QnameLoop(_, _, _)

\* `while offset < buff.len() { if !qname_namepart(..) { break; } }`, the
\* loop of read_qname and of a compressed part.
QnameLoop(dn, buffer, offset) ==
    IF offset >= BUFF_SZ THEN NamePart(FALSE, dn, offset)
    ELSE LET Go(p) == IF p.panic \/ ~p.more THEN p ELSE QnameLoop(p.dn, buffer, p.offset)
         IN  Go(qname_namepart(dn, buffer, offset))

\* qname_namepart: a zero ends the name; a length with both high bits set
\* is a pointer, followed to its end; any other length is a label, joined
\* to the name by a dot when the name is not empty.
qname_namepart(dn, buffer, offset) ==
    IF offset >= BUFF_SZ THEN NamePart(FALSE, dn, offset)
    ELSE
        LET part_len == ByteAt(buffer, offset)
            at       == offset + 1
        IN  IF part_len = 0 THEN NamePart(FALSE, dn, at)
            ELSE IF BitAnd(part_len, COMP) = COMP
            THEN IF at >= BUFF_SZ THEN NamePartPanicked
                 ELSE LET Back(p) == IF p.panic THEN p ELSE NamePart(FALSE, p.dn, at + 1)
                      IN  Back(QnameLoop(dn, buffer,
                                         FromBeBytes(<<BitAnd(part_len, U8 - 1 - COMP),
                                                       ByteAt(buffer, at)>>)))
            ELSE LET Label(r) ==
                        IF r.panic THEN NamePartPanicked
                        ELSE NamePart(TRUE,
                                      (IF Len(dn) > 0 THEN Append(dn, CodeDot) ELSE dn) \o r.v,
                                      r.offset)
                 IN  Label(read_buff(buffer, at, part_len))

\* read_qname: the name, its labels joined by dots
read_qname(buff, offset) ==
    LET Name(p) == IF p.panic THEN Panicked ELSE ReadValue(p.dn, p.offset)
    IN  Name(QnameLoop(<<>>, buff, offset))

\* RecordType::from_u16; the types without an RDATA struct of their own
\* are not told apart.
RecordTypeFromU16(indata) ==
    CASE indata = 1 -> "A"
      [] indata = 28 -> "AAAA"
      [] indata = 5 -> "CNAME"
      [] indata = 39 -> "DNAME"
      [] indata = 48 -> "DNSKEY"
      [] indata = 43 -> "DS"
      [] indata = 15 -> "MX"
      [] indata = 2 -> "NS"
      [] indata = 6 -> "SOA"
      [] indata = 16 -> "TXT"
      [] OTHER -> "RecordTypeOther"

\* The from_wire of each RDATA struct: the RDATA read, or a panic.  None
\* of them returns an Err.
RDATAaFromWire(size, buff, offset) ==
    IF size # 4 THEN Panicked ELSE read_buff(buff, offset, 4)

RDATAaaaaFromWire(size, buff, offset) ==
    IF size # 16 THEN Panicked ELSE read_buff(buff, offset, 16)

RDATANameRRFromWire(size, buff, offset) ==
    LET Dotted(r) ==
            IF r.panic THEN r
            ELSE ReadValue(IF Len(r.v) > 0 /\ r.v[Len(r.v)] = CodeDot THEN r.v
                           ELSE Append(r.v, CodeDot), r.offset)
    IN  Dotted(read_qname(buff, offset))

\* RDATAds and RDATAdnskey: four bytes of fixed fields, then
\* size - (*offset - start_offset) bytes, a subtraction of usize
RDATAdsFromWire(size, buff, offset) ==
    LET Rest(fixed) ==
            IF fixed.panic \/ size < 4 THEN Panicked
            ELSE LET Both(r) == IF r.panic THEN r ELSE ReadValue(fixed.v \o r.v, r.offset)
                 IN  Both(read_buff(buff, fixed.offset, size - 4))
    IN  Rest(read_buff(buff, offset, 4))

RDATAmxFromWire(size, buff, offset) ==
    LET Target(weight) ==
            IF weight.panic THEN weight
            ELSE LET Both(r) == IF r.panic THEN r
                                ELSE ReadValue(<<weight.v, r.v>>, r.offset)
                 IN  Both(read_qname(buff, weight.offset))
    IN  Target(dns_read_int(2, buff, offset))

RDATAsoaFromWire(size, buff, offset) ==
    LET Numbers(mname, rname) ==
            IF rname.panic THEN rname
            ELSE LET All(r) == IF r.panic THEN r
                               ELSE ReadValue(<<mname.v, rname.v, r.v>>, r.offset)
                 IN  All(read_buff(buff, rname.offset, 20))
        Rname(mname) ==
            IF mname.panic THEN mname ELSE Numbers(mname, read_qname(buff, mname.offset))
    IN  Rname(read_qname(buff, offset))

RDATAgenericFromWire(size, buff, offset) == read_buff(buff, offset, size)

FromWire(rdata_type, size, buff, offset) ==
    CASE rdata_type = "RDATAa" -> RDATAaFromWire(size, buff, offset)
      [] rdata_type = "RDATAaaaa" -> RDATAaaaaFromWire(size, buff, offset)
      [] rdata_type = "RDATANameRR" -> RDATANameRRFromWire(size, buff, offset)
      [] rdata_type \in {"RDATAds", "RDATAdnskey"} -> RDATAdsFromWire(size, buff, offset)
      [] rdata_type = "RDATAmx" -> RDATAmxFromWire(size, buff, offset)
      [] rdata_type = "RDATAsoa" -> RDATAsoaFromWire(size, buff, offset)
      [] OTHER -> RDATAgenericFromWire(size, buff, offset)

\* ZoneRecord::create_from_wire on the bytes: name.fqdn is the name as
\* read_qname returns it; then type, class, ttl, rdlength and the RDATA.
ZoneRecordFromWire(buff, offset) ==
    LET Record(name, fixed, rdata) ==
            IF rdata.panic THEN Panicked
            ELSE ReadValue([name        |-> RecordName(name.v, name.v),
                            record_type |-> RecordTypeFromU16(FromBeBytes(SubSeq(fixed.v, 1, 2))),
                            class       |-> FromBeBytes(SubSeq(fixed.v, 3, 4)),
                            ttl         |-> I32FromBeBytes(SubSeq(fixed.v, 5, 8)),
                            rdata       |-> rdata.v],
                           rdata.offset)
        Rdata(name, fixed) ==
            IF fixed.panic THEN Panicked
            ELSE Record(name, fixed,
                        FromWire(create_from_type(
                                     RecordTypeFromU16(FromBeBytes(SubSeq(fixed.v, 1, 2)))),
                                 FromBeBytes(SubSeq(fixed.v, 9, 10)), buff, fixed.offset))
        Fixed(name) ==
            IF name.panic THEN Panicked ELSE Rdata(name, read_buff(buff, name.offset, 10))
    IN  Fixed(read_qname(buff, offset))


-----------------------------------------------------------------------------
(* query.rs: Question, Header::read, Sender::query *)

\* QueryType::as_u16
QueryTypeAsU16(query_type) ==
    CASE query_type = "T_A" -> 1
      [] query_type = "T_NS" -> 2
      [] query_type = "T_SOA" -> 6
      [] query_type = "T_AAAA" -> 28

\* NSClass::C_IN as u16
C_IN == 1

\* Question::write, lines 625-647: the labels between the dots of host,
\* each after its length; a part of length 0 is passed over.
RECURSIVE QuestionLabels(_, _, _, _)
QuestionLabels(bytes, x, last_l, buff) ==
    IF x > Len(bytes) THEN buff
    ELSE IF x = Len(bytes) \/ bytes[x + 1] = CodeDot
    THEN LET part_len == x - last_l
         IN  IF part_len = 0 THEN QuestionLabels(bytes, x + 1, x, buff)
             ELSE QuestionLabels(bytes, x + 1, x + 1,
                                 buff \o <<part_len>> \o SubSeq(bytes, last_l + 1, last_l + part_len))
    ELSE QuestionLabels(bytes, x + 1, last_l, buff)

\* Question::write
QuestionWrite(host, qtype, qclass) ==
    QuestionLabels(host, 0, 0, <<>>) \o <<0>> \o U16ToBeBytes(QueryTypeAsU16(qtype))
    \o U16ToBeBytes(qclass)

\* Question::read: the name, the type and the class
QuestionRead(buff, offset) ==
    LET Fixed(host) ==
            IF host.panic THEN Panicked
            ELSE LET Both(r) == IF r.panic THEN r
                                ELSE ReadValue([host |-> host.v, qtype |-> FromBeBytes(SubSeq(r.v, 1, 2))],
                                               r.offset)
                 IN  Both(read_buff(buff, host.offset, 4))
    IN  Fixed(read_qname(buff, offset))

\* OPCODE::from_u8 and RCODE::from_u8
OpcodeFromU8(number) ==
    CASE number = 1 -> "O_IQUERY"
      [] number = 2 -> "O_STATUS"
      [] number = 4 -> "O_NOTIFY"
      [] number = 5 -> "O_UPDATE"
      [] OTHER -> "O_QUERY"

RcodeFromU8(number) ==
    IF number < Len(RcodeNames) THEN RcodeNames[number + 1] ELSE "NOTIMPL"

\* Header::read, the twelve bytes at the start of the array
HeaderRead(buff) ==
    LET flag1 == ByteAt(buff, 2)
        flag2 == ByteAt(buff, 3)
        U16At(i) == FromBeBytes(<<ByteAt(buff, i), ByteAt(buff, i + 1)>>)
    IN  Header(U16At(0),
               BitAnd(flag1, 128) # 0,
               OpcodeFromU8(BitAnd(flag1, 120) \div 2),
               BitAnd(flag1, 4) # 0,
               BitAnd(flag1, 2) # 0,
               BitAnd(flag1, 1) # 0,
               BitAnd(flag2, 128) # 0,
               BitAnd(flag2, 112) \div 16,
               RcodeFromU8(BitAnd(flag2, 15)),
               U16At(4), U16At(6), U16At(8), U16At(10))

\* Sender::new and the locals of query before anything is sent.
SenderNew(host, query_type) ==
    [pc |-> "send", host |-> host, query_type |-> query_type, recursive |-> FALSE,
     request |-> <<>>, reply |-> <<>>, buff |-> <<>>, offset |-> 0, x |-> 0,
     recv_header |-> Header(0, FALSE, "O_QUERY", FALSE, FALSE, FALSE, FALSE, 0, "NOERROR",
                            0, 0, 0, 0),
     recv_questions |-> <<>>, answer |-> <<>>, authority |-> <<>>, additional |-> <<>>,
     ret |-> "none"]

\* Lines 884-911: the request, a header and one question.
SenderRequest(s) ==
    HeaderWrite(Header(1, FALSE, "O_QUERY", FALSE, FALSE, s.recursive, FALSE, 0, "NOERROR",
                       1, 0, 0, 0))
    \o QuestionWrite(s.host, s.query_type, C_IN)

\* The list a section is read into, and the count of its records.
SectionCount(s) ==
    CASE s.pc = "answer" -> s.recv_header.ancount
      [] s.pc = "authority" -> s.recv_header.nscount
      [] s.pc = "additional" -> s.recv_header.arcount

NextSection(pc) ==
    CASE pc = "answer" -> "authority"
      [] pc = "authority" -> "additional"
      [] pc = "additional" -> "return"

\* Sender::read_record, one turn of its loop: the record is pushed when
\* create_from_wire returns Ok; a panic unwinds the thread.
SenderReadRecord(s) ==
    LET Pushed(r) ==
            IF r.panic THEN [s EXCEPT !.pc = "panicked"]
            ELSE [s EXCEPT ![s.pc] = Append(@, r.v), !.offset = r.offset, !.x = @ + 1]
    IN  Pushed(ZoneRecordFromWire(s.buff, s.offset))

\* Lines 964-971: the question section
RECURSIVE SenderReadQuestions(_)
SenderReadQuestions(s) ==
    IF s.x >= s.recv_header.qdcount THEN [s EXCEPT !.pc = "answer", !.x = 0]
    ELSE LET Pushed(q) ==
                IF q.panic THEN [s EXCEPT !.pc = "panicked"]
                ELSE SenderReadQuestions([s EXCEPT !.recv_questions = Append(@, q.v),
                                                   !.offset = q.offset, !.x = @ + 1])
         IN  Pushed(QuestionRead(s.buff, s.offset))


-----------------------------------------------------------------------------
(* Inputs: replies as a server sends them *)

\* Most records in the answer section of a reply.
MaxAnswers == 2

\* The names asked for: a.co. and b
QueryHosts == {<<97, CodeDot, 99, 111, CodeDot>>, <<98>>}
QueryTypes == {"T_A", "T_NS"}

\* A resource record on the wire: its owner a pointer to offset 12 (the
\* name of the question), class IN, ttl 5.
WireBytes(record_type, rdlength, rdata) ==
    <<COMP, 12>> \o U16ToBeBytes(record_type) \o U16ToBeBytes(C_IN) \o <<0, 0, 0, 5>>
    \o U16ToBeBytes(rdlength) \o rdata

\* The records a reply is made of.  Malformed are: an A record of rdlength
\* 3, a DS record of rdlength 2, and a TXT record whose rdlength (600)
\* reaches past the end of the message.
WireA       == [malformed |-> FALSE, bytes |-> WireBytes(1, 4, <<10, 0, 0, 1>>)]
WireAShort  == [malformed |-> TRUE,  bytes |-> WireBytes(1, 3, <<10, 0, 0>>)]
WireNS      == [malformed |-> FALSE, bytes |-> WireBytes(2, 3, <<1, 110, 0>>)]
WireDS      == [malformed |-> FALSE, bytes |-> WireBytes(43, 5, <<0, 1, 8, 2, 170>>)]
WireDSShort == [malformed |-> TRUE,  bytes |-> WireBytes(43, 2, <<0, 1>>)]
WireOther   == [malformed |-> FALSE, bytes |-> WireBytes(99, 1, <<7>>)]
WireCutOff  == [malformed |-> TRUE,  bytes |-> WireBytes(16, 600, <<120>>)]

AnswerPool == {WireA, WireAShort, WireNS, WireDS, WireDSShort, WireOther, WireCutOff}

ReplyPool ==
    {[answer |-> an, authority |-> ns, additional |-> ar] :
        an \in UNION {[1..n -> AnswerPool] : n \in 0..MaxAnswers},
        ns \in {<<>>, <<WireNS>>},
        ar \in {<<>>, <<WireA>>}}

RECURSIVE Concat(_)
Concat(records) ==
    IF records = <<>> THEN <<>> ELSE records[1].bytes \o Concat(Tail(records))

\* The bytes of a reply to a request: a response header with the counts,
\* the question of the request, the records.
ReplyBytes(request, reply) ==
    <<0, 1, 128, 0>> \o U16ToBeBytes(1) \o U16ToBeBytes(Len(reply.answer))
    \o U16ToBeBytes(Len(reply.authority)) \o U16ToBeBytes(Len(reply.additional))
    \o SubSeq(request, 13, Len(request))
    \o Concat(reply.answer) \o Concat(reply.authority) \o Concat(reply.additional)

-----------------------------------------------------------------------------
(* Sender::query at work *)

QueryInit ==
    /\ sender \in {SenderNew(host, query_type) : host \in QueryHosts, query_type \in QueryTypes}
    /\ header = NoHeader
    /\ NoStart
    /\ NoWire
    /\ NoFile
    /\ root_addr = <<>>
    /\ call = NoCall
    /\ learned = {}
    /\ audit = NoAudit
    /\ NoMain

QueryUnchanged ==
    UNCHANGED <<header, rootVars, auditVars, mainVars, fileVars, perfVars, tokVars, startVars, wireVars>>

\* Lines 861-926: the socket, the request sent; an error of the socket
\* returns Err.
Send ==
    /\ sender.pc = "send"
    /\ \/ sender' = [sender EXCEPT !.pc = "recv", !.request = SenderRequest(sender)]
       \/ sender' = [sender EXCEPT !.pc = "returned", !.ret = "Err"]
    /\ QueryUnchanged

\* Lines 928-941: recv_from, a reply or an error (the timeout)
Recv ==
    /\ sender.pc = "recv"
    /\ \/ \E reply \in ReplyPool :
            sender' = [sender EXCEPT !.pc = "header", !.reply = reply,
                                     !.buff = ReplyBytes(sender.request, reply)]
       \/ sender' = [sender EXCEPT !.pc = "returned", !.ret = "Err"]
    /\ QueryUnchanged

\* Line 959: self.recv_header.read
ReadHeader ==
    /\ sender.pc = "header"
    /\ sender' = [sender EXCEPT !.pc = "questions", !.recv_header = HeaderRead(sender.buff),
                                !.offset = 12]
    /\ QueryUnchanged

\* Lines 964-971
ReadQuestions ==
    /\ sender.pc = "questions"
    /\ sender' = SenderReadQuestions(sender)
    /\ QueryUnchanged

\* Lines 974-976 and 985-991: one record of the section being read
ReadRecord ==
    /\ sender.pc \in {"answer", "authority", "additional"}
    /\ sender.x < SectionCount(sender)
    /\ sender' = SenderReadRecord(sender)
    /\ QueryUnchanged

\* The section is read: read_record returns.
EndSection ==
    /\ sender.pc \in {"answer", "authority", "additional"}
    /\ sender.x >= SectionCount(sender)
    /\ sender' = [sender EXCEPT !.pc = NextSection(sender.pc), !.x = 0]
    /\ QueryUnchanged

\* Line 978: Ok(())
Return ==
    /\ sender.pc = "return"
    /\ sender' = [sender EXCEPT !.pc = "returned", !.ret = "Ok"]
    /\ QueryUnchanged

QueryNext ==
    \/ Send
    \/ Recv
    \/ ReadHeader
    \/ ReadQuestions
    \/ ReadRecord
    \/ EndSection
    \/ Return

SpecQuery == QueryInit /\ [][QueryNext]_vars

\* The records of a section that are well formed.
WellFormed(records) == SelectSeq(records, LAMBDA w : ~w.malformed)

HasMalformed(reply) ==
    \E section \in {reply.answer, reply.authority, reply.additional} :
        \E i \in 1..Len(section) : section[i].malformed

\* The types of the records, as they are on the wire and as decoded.
WireTypes(records) ==
    [i \in 1..Len(records) |-> RecordTypeFromU16(FromBeBytes(SubSeq(records[i].bytes, 3, 4)))]
ListTypes(list) == [i \in 1..Len(list) |-> list[i].record_type]

\* C22: a reply with a record that cannot be parsed is read to its end,
\* query returns Ok, and the three lists hold the other records.
C22_MalformedRecordSkipped ==
    (sender.pc \in {"returned", "panicked"} /\ sender.reply # <<>>
        /\ HasMalformed(sender.reply)) =>
        /\ sender.pc = "returned"
        /\ sender.ret = "Ok"
        /\ ListTypes(sender.answer) = WireTypes(WellFormed(sender.reply.answer))
        /\ ListTypes(sender.authority) = WireTypes(WellFormed(sender.reply.authority))
        /\ ListTypes(sender.additional) = WireTypes(WellFormed(sender.reply.additional))

\* An A record, then an A record of rdlength 3: the thread has panicked
\* with the first record read.
C22_Witness ==
    /\ sender.pc = "panicked"
    /\ sender.reply.answer = <<WireA, WireAShort>>
    /\ Len(sender.answer) = 1

\* The name of the question with its trailing dot.
Absolute(host) ==
    IF Len(host) > 0 /\ host[Len(host)] = CodeDot THEN host ELSE Append(host, CodeDot)

\* C23: the owner of every record decoded from a reply, written there as
\* a pointer to the question, is the question's name with a trailing dot.
C23_OwnerHasTrailingDot ==
    sender.pc = "returned" /\ sender.ret = "Ok" =>
        \A list \in {sender.answer, sender.authority, sender.additional} :
            \A i \in 1..Len(list) : list[i].name.fqdn = Absolute(sender.host)

\* The A record of a reply to a query for a.co.: its owner is read as a.co
C23_Witness ==
    /\ sender.pc = "returned"
    /\ sender.ret = "Ok"
    /\ sender.host = <<97, CodeDot, 99, 111, CodeDot>>
    /\ sender.reply.answer = <<WireA>>
    /\ Len(sender.answer) = 1
    /\ sender.answer[1].name.fqdn = <<97, CodeDot, 99, 111>>
    /\ sender.answer[1].rdata = <<10, 0, 0, 1>>


-----------------------------------------------------------------------------
(* Properties of the audit: flags, addresses, order of the queries *)

ErrorCodes == {"NoAuthoratative", "AuthoratativeFail", "NoResolve", "ResolveIpNotMatch"}

\* How often a flag occurs in a result.
FlagCount(rval, flag) == Cardinality({i \in 1..Len(rval.flags) : rval.flags[i] = flag})

\* C24: in a returned result every flag occurs at most once, and there is
\* one reason string for each flag raised.
C24_OneReasonPerFlag ==
    audit.pc = "returned" =>
        /\ \A flag \in ErrorCodes : FlagCount(audit.rval, flag) <= 1
        /\ Len(audit.rval.reason)
           = Cardinality({flag \in ErrorCodes : HasFlag(audit.rval, flag)})

\* Two addresses expected, two others observed: ResolveIpNotMatch twice.
C24_Witness ==
    /\ audit.pc = "returned"
    /\ audit.me.ip = Some(<<1, 2>>)
    /\ audit.rval.ips = Some(<<3, 6>>)
    /\ FlagCount(audit.rval, "ResolveIpNotMatch") = 2
    /\ Len(audit.rval.reason) = 2


-----------------------------------------------------------------------------
(* Root::split_name, step by step *)

MaxName == 7

NameChars == {"a", "b", DOT, BSL}

\* The domain names handed to split_name: no empty name (the subtraction
\* domain_name.len() - 1 is on an unsigned length).
DomainNames == SeqsUpTo(NameChars, MaxName) \ {<<>>}

SplitInit ==
    /\ split \in {[pc |-> "matches", domain_name |-> n, last |-> 0,
                   spl |-> <<>>, rval |-> <<>>] : n \in DomainNames}
    /\ cmdline = NoCmdline
    /\ NoQuery
    /\ NoWire
    /\ NoFile
    /\ root_addr = <<>>
    /\ call = NoCall
    /\ learned = {}
    /\ audit = NoAudit
    /\ NoMain

SplitUnchanged ==
    UNCHANGED <<cmdline, rootVars, auditVars, mainVars, fileVars, perfVars, tokVars,
                queryVars, wireVars>>

\* One turn of `for mat in delim.find_iter(domain_name)`.
SplitMatch ==
    /\ split.pc = "matches"
    /\ LET s == split.domain_name
           p == DelimNextMatch(s, split.last + 1)
       IN  /\ p # 0
           /\ LET n     == DelimMatchLen(s, p)
                  head  == SubSeq(s, split.last + 1, p - 1)
                  piece == IF n = 2 /\ s[p] # BSL THEN Append(head, s[p]) ELSE head
              IN  split' = [split EXCEPT !.spl = Append(@, piece), !.last = p - 1 + n]
    /\ SplitUnchanged

\* No further match: the rest of the name is pushed when
\* last < domain_name.len() - 1.
SplitTail ==
    /\ split.pc = "matches"
    /\ DelimNextMatch(split.domain_name, split.last + 1) = 0
    /\ split' = [split EXCEPT
           !.pc = "dots",
           !.spl = IF split.last < Len(split.domain_name) - 1
                   THEN Append(@, SubSeq(split.domain_name, split.last + 1,
                                         Len(split.domain_name)))
                   ELSE @]
    /\ SplitUnchanged

\* The second loop gives every piece its dot, and the function returns.
SplitReturn ==
    /\ split.pc = "dots"
    /\ split' = [split EXCEPT
           !.pc = "returned",
           !.rval = [i \in 1..Len(split.spl) |-> Append(split.spl[i], DOT)]]
    /\ SplitUnchanged

SplitNext ==
    \/ SplitMatch
    \/ SplitTail
    \/ SplitReturn

SpecSplit == SplitInit /\ [][SplitNext]_vars

\* A dot of the name that separates two labels: one not preceded by a backslash.
IsSeparator(s, i) == s[i] = DOT /\ (i = 1 \/ s[i - 1] # BSL)

\* The labels of a name: the maximal runs of characters between separators.
Labels(s) ==
    LET seps   == {i \in 1..Len(s) : IsSeparator(s, i)}
        starts == {i \in 1..Len(s) :
                      /\ ~IsSeparator(s, i)
                      /\ (i = 1 \/ IsSeparator(s, i - 1))}
        EndOf(i) == IF \E j \in seps : j > i
                    THEN (CHOOSE j \in seps : j > i /\ \A k \in seps : k > i => j <= k) - 1
                    ELSE Len(s)
        RECURSIVE RunsFrom(_)
        RunsFrom(i) == IF \E j \in starts : j >= i
                   THEN LET b == CHOOSE j \in starts : j >= i /\ \A k \in starts : k >= i => j <= k
                        IN  <<SubSeq(s, b, EndOf(b))>> \o RunsFrom(EndOf(b) + 1)
                   ELSE <<>>
    IN  RunsFrom(1)

\* A name without empty labels: it does not start with a dot and has no two
\* separators in a row.
PlainName(s) ==
    /\ ~IsSeparator(s, 1)
    /\ \A i \in 2..Len(s) : ~(IsSeparator(s, i) /\ IsSeparator(s, i - 1))

\* C25: for every name without empty labels, with or without a trailing
\* dot, split_name returns its labels in order, one entry (the label with
\* its dot) for each, an escaped dot staying inside its label and the last
\* label being returned whatever its length.
C25_SplitGivesEveryLabel ==
    (split.pc = "returned" /\ PlainName(split.domain_name)) =>
        /\ split.rval = split_name(split.domain_name)
        /\ split.rval = [i \in 1..Len(Labels(split.domain_name)) |->
                            Append(Labels(split.domain_name)[i], DOT)]

\* `a.b`: the last label is one character long and has no dot after it.
C25_Witness ==
    /\ split.pc = "returned"
    /\ split.domain_name = <<"a", DOT, "b">>
    /\ Labels(split.domain_name) = << <<"a">>, <<"b">> >>
    /\ split.rval = << <<"a", DOT>> >>

\* The names of the claim's examples are split as it says.
C25_Examples ==
    /\ split_name(<<"a", BSL, DOT, "b", DOT, "a", DOT>>)
           = << <<"a", BSL, DOT, "b", DOT>>, <<"a", DOT>> >>
    /\ split_name(<<"a", DOT, "b", DOT, "a", DOT>>)
           = << <<"a", DOT>>, <<"b", DOT>>, <<"a", DOT>> >>


\* The address of the nameserver whose reply ended the address check: the
\* one the last query of the audit went to.
Responder == audit.sent[Len(audit.sent)].q.ip

\* The addresses of the records of one type in the answer section of a reply.
RECURSIVE RecordsOf(_, _)
RecordsOf(answer, record_type) ==
    IF answer = <<>> THEN <<>>
    ELSE (IF Head(answer).record_type = record_type THEN <<Head(answer).rdata>> ELSE <<>>)
         \o RecordsOf(Tail(answer), record_type)

\* The A records of the A reply and the AAAA records of the AAAA reply of
\* the responding nameserver.
Received ==
    RecordsOf(audit.aq.a[Responder].answer, "A")
    \o RecordsOf(audit.aq.aaaa[Responder].answer, "AAAA")

Occurrences(q, x) == Cardinality({i \in 1..Len(q) : q[i] = x})

\* C26: with expected_ips set and a nameserver that replied, every A record
\* of its A reply and every AAAA record of its AAAA reply is in
\* observed_ips, once for each record received.
C26_EveryAnswerObserved ==
    (/\ audit.pc = "returned"
     /\ audit.me.ip.some
     /\ audit.rval.ips.some)
        => \A i \in 1..Len(Received) :
              Occurrences(audit.rval.ips.v, Received[i]) = Occurrences(Received, Received[i])

\* The A reply brought address 1 and the AAAA reply address 8: only 1 is observed.
C26_Witness ==
    /\ audit.pc = "returned"
    /\ audit.me.ip.some
    /\ audit.rval.ips = Some(<<1>>)
    /\ Received = <<1, 8>>


\* The reply of the i-th parent nameserver to the NS query of this audit.
NsReply(i) == IF i <= Len(audit.nq) THEN audit.nq[i] ELSE QueryErr

\* The parent nameservers that would reply, by their place in the list.
Repliers == {i \in 1..Len(audit.servers) : NsReply(i).ok}

\* How many parent nameservers the audit has to ask: up to the first that replies.
Asked == IF Repliers = {} THEN Len(audit.servers)
         ELSE CHOOSE i \in Repliers : \A j \in Repliers : i <= j

\* The targets of the NS records of an authority section, as decoded.
RECURSIVE NsTargets(_)
NsTargets(authority) ==
    IF authority = <<>> THEN <<>>
    ELSE (IF Head(authority).record_type = "NS"
          THEN <<create_from_wire(Head(authority)).rdata>> ELSE <<>>)
         \o NsTargets(Tail(authority))

\* C27: the NS query goes to the parent nameservers in list order, one
\* after the other while they return an error, up to the first that
\* replies, whatever its rcode; observed_ns is the NS records of that
\* reply's authority section; and every NS query of the audit comes before
\* every address query.
C27_NsCollectionOrder ==
    audit.pc \in {"check_ns", "check_ips", "returned"} =>
        LET ns == SelectSeq(audit.sent, LAMBDA s : s.q.qtype = "NS")
        IN  /\ Len(ns) = Asked
            /\ \A i \in 1..Len(ns) :
                  ns[i] = Sent(audit.servers[i].ip, audit.me.domain_name, "NS",
                               NsReply(i).ok)
            /\ \A i \in 1..Len(ns) : ns[i].ok => i = Len(ns)
            /\ audit.read_ns = IF Repliers = {} THEN <<>>
                               ELSE NsTargets(NsReply(Asked).authority)
            /\ audit.pc # "check_ns" => audit.rval.nameservers = Some(audit.read_ns)
            /\ \A i, j \in 1..Len(audit.sent) :
                  (i < j /\ audit.sent[j].q.qtype = "NS") => audit.sent[i].q.qtype = "NS"

\* The first server replies SERVFAIL with one NS record, the second would
\* reply too: one NS query, observed_ns from the first, and address queries after it.
C27_Witness ==
    /\ audit.pc = "returned"
    /\ Len(audit.servers) >= 2
    /\ audit.nq[1].ok /\ audit.nq[1].rcode = "SERVFAIL" /\ audit.nq[2].ok
    /\ Len(audit.read_ns) = 1
    /\ Len(audit.sent) >= 3
    /\ audit.sent[2].q.qtype = "A"


-----------------------------------------------------------------------------
(* Properties of the referral: glue and the OS resolver *)

\* A call that went through the referral block and got a NOERROR reply.
Referred ==
    /\ call.op = "get_nameservers_and_resolve"
    /\ call.inserted # {}
    /\ call.ret.ok

\* The A and AAAA records of the additional section that carry the name of
\* an NS record's target, both names read from the wire the same way.
GlueFor(rec) ==
    {i \in 1..Len(call.net.reply.additional) :
        LET addrrec == call.net.reply.additional[i]
        IN  /\ addrrec.record_type \in {"A", "AAAA"}
            /\ EqIgnoreAsciiCase(QnameOfLabels(addrrec.owner), QnameOfLabels(rec.rdata))}

\* The NS records of the authority section of the reply.
AuthorityNs ==
    {i \in 1..Len(call.net.reply.authority) :
        call.net.reply.authority[i].record_type = "NS"}

\* C28: on a NOERROR referral reply, the address of every A or AAAA record
\* of the additional section that is named as the target of an NS record
\* of the authority section is a Nameserver of the new zone, and that
\* target is not handed to the OS resolver.
C28_GlueBecomesNameserver ==
    Referred =>
        \A i \in AuthorityNs :
            LET rec == call.net.reply.authority[i]
            IN  GlueFor(rec) # {} =>
                  /\ \A g \in GlueFor(rec) :
                        \E k \in 1..Len(call.ret.entry.servers) :
                            call.ret.entry.servers[k].ip = call.net.reply.additional[g].rdata
                  /\ \A k \in 1..Len(call.lookups) :
                        call.lookups[k] # NameRRFromWire(rec.rdata)

\* The reply delegates to N and carries the A and AAAA records of n: the
\* new zone has no nameserver.
C28_Witness ==
    /\ Referred
    /\ call.net.reply.authority = <<WireRR("NS", ZoneLabels(ReferralZone(call.domain)), LabelsUpperN)>>
    /\ call.net.reply.additional = <<WireRR("A", LabelsN, 6), WireRR("AAAA", LabelsN, 7)>>
    /\ call.ret.entry.servers = <<>>

\* C29: for every NS record of the authority section without glue, the
\* name handed to the OS resolver is the record's target, and every address
\* the resolver has for it is a Nameserver of the new zone under that name.
C29_ResolverGetsNsTarget ==
    Referred =>
        \A i \in AuthorityNs :
            LET rec    == call.net.reply.authority[i]
                target == NameRRFromWire(rec.rdata)
                addrs  == lookup_host(call.net, target)
            IN  GlueFor(rec) = {} =>
                  /\ \E k \in 1..Len(call.lookups) : call.lookups[k] = target
                  /\ \A a \in 1..Len(addrs) :
                        \E k \in 1..Len(call.ret.entry.servers) :
                            call.ret.entry.servers[k] = NameServer(target, addrs[a])

\* The reply delegates to m without glue and the resolver knows m: the
\* name looked up is the owner of the NS record, and the zone has no nameserver.
C29_Witness ==
    /\ Referred
    /\ call.net.reply.authority = <<WireRR("NS", ZoneLabels(ReferralZone(call.domain)), LabelsM)>>
    /\ call.net.reply.additional = <<>>
    /\ lookup_host(call.net, HostM) = <<9>>
    /\ call.lookups = <<QnameOfLabels(ZoneLabels(ReferralZone(call.domain)))>>
    /\ call.ret.entry.servers = <<>>


-----------------------------------------------------------------------------
(* Header::read against the layout of the flag bytes *)

\* recv_header.read(&buff, &mut offset), on the bytes written or received
ReadHeaderBytes ==
    /\ header.pc \in {"written", "received"}
    /\ header' = [pc |-> "read", from |-> header.pc, sent |-> header.pc = "written",
                  h |-> IF header.pc = "written" THEN header.h ELSE HeaderRead(header.buff),
                  buff |-> header.buff, got |-> HeaderRead(header.buff)]
    /\ UNCHANGED <<sender, rootVars, auditVars, mainVars, fileVars, perfVars, tokVars,
                   startVars, wireVars>>

HeaderNext == WriteHeader \/ ReadHeaderBytes

SpecHeader == HeaderInit /\ [][HeaderNext]_vars

\* C31: Header::read takes qr, opcode, aa, tc, rd from the first flag byte
\* and ra, z, rcode from the second by the layout qr:1 opcode:4 aa:1 tc:1
\* rd:1 | ra:1 z:3 rcode:4, the opcode being the value of bits 0x78 shifted
\* down to 0..15; and reading the bytes Header::write wrote gives the
\* header that was written.
C31_ReadRecoversFields ==
    header.pc = "read" =>
        LET flag1 == header.buff[3]
            flag2 == header.buff[4]
            got   == header.got
        IN  /\ got.qr = (BitAnd(flag1, 128) # 0)
            /\ got.opcode = OpcodeFromU8(BitAnd(flag1, 120) \div 8)
            /\ got.aa = (BitAnd(flag1, 4) # 0)
            /\ got.tc = (BitAnd(flag1, 2) # 0)
            /\ got.rd = (BitAnd(flag1, 1) # 0)
            /\ got.ra = (BitAnd(flag2, 128) # 0)
            /\ got.z = BitAnd(flag2, 112) \div 16
            /\ got.rcode = RcodeFromU8(BitAnd(flag2, 15))
            /\ header.sent => got = header.h

\* Flag byte 0x08, opcode field 1 (IQUERY): read as O_NOTIFY.
C31_Witness ==
    /\ header.pc = "read"
    /\ header.from = "received"
    /\ header.buff[3] = 8
    /\ header.got.opcode = "O_NOTIFY"

\* The header of a recursive query, written and read back: a response.
C31_WitnessWritten ==
    /\ header.pc = "read"
    /\ header.sent
    /\ header.h.rd /\ ~header.h.qr
    /\ header.got.qr /\ ~header.got.rd


-----------------------------------------------------------------------------
(* Question::write, turn by turn of its loop, with its u8 counters *)

MaxHost == 4
MaxWraps == 1

\* The byte of the letter a.
CodeA == CodeOf("a")

\* Longest host Question::write accepts.
MaxHostLen == 255

\* A host of n bytes in labels of 63 bytes.
LabelHost(n) == [i \in 1..n |-> IF i % 64 = 0 THEN CodeDot ELSE CodeA]

\* The hosts written: every string of a and dot up to MaxHost bytes, and
\* hosts of 254, 255 and 256 bytes.
QuestionHosts ==
    SeqsUpTo({CodeA, CodeDot}, MaxHost)
    \cup {LabelHost(MaxHostLen - 1), LabelHost(MaxHostLen), LabelHost(MaxHostLen + 1)}

\* How the program was built: with overflow checks (debug) or without (release).
Builds == {"debug", "release"}

\* u8 addition and subtraction: a panic under overflow checks, the value
\* modulo 2^8 without them.
AddU8(build, a, b) ==
    IF a + b < U8 THEN [panic |-> FALSE, wrap |-> FALSE, v |-> a + b]
    ELSE IF build = "debug" THEN [panic |-> TRUE, wrap |-> FALSE, v |-> 0]
    ELSE [panic |-> FALSE, wrap |-> TRUE, v |-> (a + b) % U8]

SubU8(build, a, b) ==
    IF a >= b THEN [panic |-> FALSE, wrap |-> FALSE, v |-> a - b]
    ELSE IF build = "debug" THEN [panic |-> TRUE, wrap |-> FALSE, v |-> 0]
    ELSE [panic |-> FALSE, wrap |-> TRUE, v |-> (a - b + U8) % U8]

QuestionInit ==
    /\ question \in {[pc |-> "start", build |-> b, host |-> h, x |-> 0, last_l |-> 0,
                      buff |-> <<>>, wraps |-> 0] : b \in Builds, h \in QuestionHosts}
    /\ qname = NoQname
    /\ NoQuery
    /\ NoStart
    /\ NoFile
    /\ root_addr = <<>>
    /\ call = NoCall
    /\ learned = {}
    /\ audit = NoAudit
    /\ NoMain

QuestionUnchanged ==
    UNCHANGED <<qname, rootVars, auditVars, mainVars, fileVars, perfVars, tokVars,
                queryVars, startVars>>

\* Lines 618-620: a host of more than 255 bytes is refused.
QuestionCheckLen ==
    /\ question.pc = "start"
    /\ question' = [question EXCEPT
           !.pc = IF Len(question.host) > MaxHostLen THEN "panicked" ELSE "loop"]
    /\ QuestionUnchanged

\* x == byte_len || bytes[x] == '.'
AtPartEnd(q) == IF q.x = Len(q.host) THEN TRUE ELSE q.host[q.x + 1] = CodeDot

\* The state after x = x + 1.
StepX(q) ==
    LET n == AddU8(q.build, q.x, 1)
    IN  IF n.panic THEN [q EXCEPT !.pc = "panicked"]
        ELSE [q EXCEPT !.x = n.v, !.wraps = IF n.wrap THEN @ + 1 ELSE @]

InLoop(q) ==
    /\ q.pc = "loop"
    /\ q.wraps < MaxWraps
    /\ q.x <= Len(q.host)

\* A turn of the loop on a byte that ends no part.
QuestionNextByte ==
    /\ InLoop(question)
    /\ ~AtPartEnd(question)
    /\ question' = StepX(question)
    /\ QuestionUnchanged

\* A turn of the loop that finds part_len == 0, lines 627-631.
QuestionEmptyPart ==
    /\ InLoop(question)
    /\ AtPartEnd(question)
    /\ LET part_len == SubU8(question.build, question.x, question.last_l)
       IN  /\ ~part_len.panic
           /\ part_len.v = 0
           /\ question' = StepX([question EXCEPT !.last_l = question.x])
    /\ QuestionUnchanged

\* A turn of the loop that writes a part, lines 633-642; it panics when an
\* addition or subtraction overflows under overflow checks, or when the
\* slice bytes[last_l..end] is out of order or out of range.
QuestionPart ==
    /\ InLoop(question)
    /\ AtPartEnd(question)
    /\ LET q        == question
           part_len == SubU8(q.build, q.x, q.last_l)
           end      == AddU8(q.build, q.last_l, part_len.v)
           last_l   == AddU8(q.build, q.x, 1)
       IN  /\ (IF part_len.panic THEN TRUE ELSE part_len.v # 0)
           /\ question' =
                IF part_len.panic \/ end.panic \/ q.last_l > end.v
                   \/ end.v > Len(q.host) \/ last_l.panic
                THEN [q EXCEPT !.pc = "panicked"]
                ELSE StepX([q EXCEPT
                         !.buff = @ \o <<part_len.v>> \o SubSeq(q.host, q.last_l + 1, end.v),
                         !.last_l = last_l.v])
    /\ QuestionUnchanged

\* The loop left: the zero byte, the qtype and the qclass, lines 651-656.
QuestionEnd ==
    /\ question.pc = "loop"
    /\ question.x > Len(question.host)
    /\ question' = [question EXCEPT
           !.pc = "done",
           !.buff = @ \o <<0>> \o U16ToBeBytes(QueryTypeAsU16("T_A")) \o U16ToBeBytes(C_IN)]
    /\ QuestionUnchanged

QuestionNext ==
    \/ QuestionCheckLen
    \/ QuestionNextByte
    \/ QuestionEmptyPart
    \/ QuestionPart
    \/ QuestionEnd

SpecQuestion == QuestionInit /\ [][QuestionNext]_vars

\* The non-empty labels of a host: the runs of bytes other than the dot.
RECURSIVE HostLabels(_, _)
HostLabels(host, label) ==
    IF host = <<>> THEN (IF label = <<>> THEN <<>> ELSE <<label>>)
    ELSE IF Head(host) = CodeDot
         THEN (IF label = <<>> THEN <<>> ELSE <<label>>) \o HostLabels(Tail(host), <<>>)
         ELSE HostLabels(Tail(host), Append(label, Head(host)))

\* Each label after its length byte.
RECURSIVE LabelBytes(_)
LabelBytes(labels) ==
    IF labels = <<>> THEN <<>>
    ELSE <<Len(Head(labels))>> \o Head(labels) \o LabelBytes(Tail(labels))

\* C32: the question written is, for every non-empty label of the host, its
\* length byte and its bytes, nothing for an empty label, then the zero
\* byte, the qtype and the qclass.
C32_LabelsEncoded ==
    (question.pc = "done" /\ Len(question.host) <= MaxHost) =>
        question.buff = LabelBytes(HostLabels(question.host, <<>>))
                        \o <<0, 0, 1, 0, 1>>

\* The root name `.` is written as a label of one byte, the dot.
C32_Witness ==
    /\ question.pc = "done"
    /\ question.host = <<CodeDot>>
    /\ question.buff = <<1, CodeDot, 0, 0, 1, 0, 1>>

\* C40: for a host of 0 to 255 bytes Question::write does not panic and
\* none of its u8 counters wraps; only a longer host is refused; and what
\* it returns ends with the zero byte, the qtype and the qclass after one
\* byte more than the host has for every label.
C40_NoOverflow ==
    /\ Len(question.host) <= MaxHostLen =>
          (question.pc # "panicked" /\ question.wraps = 0)
    /\ Len(question.host) > MaxHostLen => question.pc \in {"start", "panicked"}

\* A host of 255 bytes: x = x + 1 overflows at the end of the host; the
\* build with overflow checks panics.
C40_Witness ==
    /\ question.host = LabelHost(MaxHostLen)
    /\ question.build = "debug"
    /\ question.pc = "panicked"
    /\ question.x = MaxHostLen

\* The same host without overflow checks: the counter wraps to 0 and the
\* loop starts over on a buffer that holds the whole name already.
C40_WitnessWrapped ==
    /\ question.host = LabelHost(MaxHostLen)
    /\ question.build = "release"
    /\ question.pc = "loop"
    /\ question.wraps = 1
    /\ question.x = 0
    /\ Len(question.buff) = MaxHostLen + 1


-----------------------------------------------------------------------------
(* read_qname, call by call of qname_namepart, on buffers of any length *)

MaxQnameLen == 6

\* The bytes of the buffers: the zero byte, label lengths and pointer
\* offsets, and the first byte of a pointer.
QnameBytes == {0, 1, 2, 4, COMP}

QnameBuffers == SeqsUpTo(QnameBytes, MaxQnameLen) \ {<<>>}

\* Where read_qname is started.
StartOffsets == {0, 2}

\* u16::from_be_bytes([part_len & !COMP, buffer[offset]]): the 14 bits of a pointer.
PointerTargetUnmasked(part_len, second) == FromBeBytes(<<part_len, second>>)
PointerTarget(part_len, second) ==
    FromBeBytes(<<BitAnd(part_len, U8 - 1 - COMP), second>>)

\* read_qname entered: dest empty, no pointer met.  cur is the cursor the
\* running loop reads at, depth the number of pointers being followed,
\* offset the caller's cursor.
QnameInit ==
    /\ qname \in {[pc |-> "loop", buff |-> b, start |-> s, offset |-> s, cur |-> s,
                   depth |-> 0, dn |-> <<>>, ptr_at |-> -1, before |-> <<>>, target |-> 0] :
                  b \in QnameBuffers, s \in StartOffsets}
    /\ Len(qname.buff) > qname.start
    /\ question = NoQuestion
    /\ NoQuery
    /\ NoStart
    /\ NoFile
    /\ root_addr = <<>>
    /\ call = NoCall
    /\ learned = {}
    /\ audit = NoAudit
    /\ NoMain

QnameUnchanged ==
    UNCHANGED <<question, rootVars, auditVars, mainVars, fileVars, perfVars, tokVars,
                queryVars, startVars>>

\* The cursor of the running loop moved to `to`; at depth 0 it is the caller's.
MoveCursor(q, to) ==
    [q EXCEPT !.cur = to, !.offset = IF q.depth = 0 THEN to ELSE @]

\* The byte the next call of qname_namepart reads as part_len.
PartLen(q) == q.buff[q.cur + 1]

Reading(q) == q.pc = "loop" /\ q.cur < Len(q.buff)

\* The loop condition fails: the loop ends, every pointer being followed
\* returns false to the loop that called it, and read_qname returns dest.
QnameEndOfBuffer ==
    /\ qname.pc = "loop"
    /\ qname.cur >= Len(qname.buff)
    /\ qname' = [qname EXCEPT !.pc = "returned"]
    /\ QnameUnchanged

\* part_len == 0: the byte is consumed and the name ends.
QnameZero ==
    /\ Reading(qname)
    /\ PartLen(qname) = 0
    /\ qname' = [MoveCursor(qname, qname.cur + 1) EXCEPT !.pc = "returned"]
    /\ QnameUnchanged

\* A label: read_buff panics when it runs past the end of the buffer.
QnameLabel ==
    /\ Reading(qname)
    /\ PartLen(qname) # 0
    /\ BitAnd(PartLen(qname), COMP) # COMP
    /\ LET at  == qname.cur + 1
           end == at + PartLen(qname)
       IN  qname' =
             IF end > Len(qname.buff) THEN [qname EXCEPT !.pc = "panicked"]
             ELSE [MoveCursor(qname, end) EXCEPT
                      !.dn = (IF Len(@) > 0 THEN Append(@, CodeDot) ELSE @)
                             \o SubSeq(qname.buff, at + 1, end)]
    /\ QnameUnchanged

\* A pointer: buffer[*offset] panics past the end of the buffer; the cursor
\* passes the two bytes and a new loop reads at the pointer's offset, one
\* call of qname_namepart deeper.  More nested calls than the buffer has
\* bytes means a cycle of pointers: the recursion ends when the stack does.
QnamePointer ==
    /\ Reading(qname)
    /\ BitAnd(PartLen(qname), COMP) = COMP
    /\ LET at == qname.cur + 1
       IN  qname' =
             IF at >= Len(qname.buff) THEN [qname EXCEPT !.pc = "panicked"]
             ELSE IF qname.depth >= Len(qname.buff)
             THEN [qname EXCEPT !.pc = "stack_overflow"]
             ELSE LET target == PointerTarget(PartLen(qname), qname.buff[at + 1])
                      first  == qname.depth = 0
                  IN  [qname EXCEPT
                         !.offset = IF first THEN at + 1 ELSE @,
                         !.ptr_at = IF first THEN qname.cur ELSE @,
                         !.before = IF first THEN qname.dn ELSE @,
                         !.target = IF first THEN target ELSE @,
                         !.cur = target,
                         !.depth = @ + 1]
    /\ QnameUnchanged

QnameNext ==
    \/ QnameEndOfBuffer
    \/ QnameZero
    \/ QnameLabel
    \/ QnamePointer

SpecQname == QnameInit /\ [][QnameNext]_vars

\* The labels of the name found at a position, a pointer standing for the
\* labels at its offset; `fuel` bounds the bytes visited.
RECURSIVE LabelsAt(_, _, _)
LabelsAt(buff, pos, fuel) ==
    IF fuel = 0 \/ pos >= Len(buff) THEN <<>>
    ELSE LET b == buff[pos + 1]
         IN  IF b = 0 THEN <<>>
             ELSE IF b >= COMP
             THEN LabelsAt(buff, (b - COMP) * U8 + buff[pos + 2], fuel - 1)
             ELSE <<SubSeq(buff, pos + 2, pos + 1 + b)>>
                  \o LabelsAt(buff, pos + 1 + b, fuel - 1)

\* Labels joined by dots, after the name read so far.
RECURSIVE JoinAfter(_, _)
JoinAfter(dn, labels) ==
    IF labels = <<>> THEN dn
    ELSE JoinAfter((IF dn = <<>> THEN dn ELSE Append(dn, CodeDot)) \o Head(labels),
                   Tail(labels))

\* read_qname has returned and had met a pointer.
ReturnedThroughPointer == qname.pc = "returned" /\ qname.ptr_at >= 0

\* C33: when read_qname returns after meeting a compression pointer, the
\* name is the labels read before the pointer followed by the labels found
\* at the pointer's 14-bit offset (pointers nested there included), joined
\* by dots, and the caller's cursor is just after the pointer's two bytes.
C33_PointerFollowed ==
    ReturnedThroughPointer =>
        /\ qname.before = JoinAfter(<<>>, LabelsAt([k \in 1..qname.ptr_at |->
                                        qname.buff[k]] , qname.start, Len(qname.buff)))
        /\ qname.target = BitAnd(qname.buff[qname.ptr_at + 1], 63) * U8
                          + qname.buff[qname.ptr_at + 2]
        /\ qname.dn = JoinAfter(qname.before,
                                LabelsAt(qname.buff, qname.target, Len(qname.buff)))
        /\ qname.offset = qname.ptr_at + 2

\* A label, then a pointer to a label further on: the two labels joined by
\* a dot, the cursor after the pointer.
C33_Witness ==
    /\ qname.pc = "returned"
    /\ qname.buff = <<1, 1, COMP, 4, 1, 2>>
    /\ qname.start = 0
    /\ qname.dn = <<1, CodeDot, 2>>
    /\ qname.offset = 4
    /\ qname.cur = 6

\* A pointer to a pointer to a label.
C33_WitnessNested ==
    /\ qname.pc = "returned"
    /\ qname.buff = <<COMP, 2, COMP, 4, 1, 2>>
    /\ qname.start = 0
    /\ qname.depth = 2
    /\ qname.dn = <<2>>
    /\ qname.offset = 2

\* C39: read_qname returns without faulting for every buffer and every
\* start offset inside it.
C39_NoFault ==
    qname.pc \notin {"panicked", "stack_overflow"}

\* A pointer that points at itself: the recursion never ends.
C39_Witness ==
    /\ qname.buff = <<COMP, 0>>
    /\ qname.start = 0
    /\ qname.pc = "stack_overflow"

\* A pointer whose second byte is past the end of the buffer.
C39_WitnessPointerCut ==
    /\ qname.buff = <<COMP>>
    /\ qname.pc = "panicked"

\* A label whose length runs past the end of the buffer.
C39_WitnessLabelCut ==
    /\ qname.buff = <<2, 1>>
    /\ qname.pc = "panicked"


-----------------------------------------------------------------------------
(* ZoneLines::unescape against the decoding rule *)

\* The decoding rule: a backslash and three digits give the byte of that
\* value, a backslash and any other character give that character, every
\* other character is copied.
RECURSIVE Decoded(_)
Decoded(s) ==
    IF s = <<>> THEN <<>>
    ELSE IF s[1] # CodeBackslash \/ Len(s) = 1 THEN <<s[1]>> \o Decoded(Tail(s))
    ELSE IF Len(s) >= 4 /\ \A k \in 2..4 : s[k] >= CodeZero /\ s[k] <= CodeNine
         THEN <<100 * (s[2] - CodeZero) + 10 * (s[3] - CodeZero) + (s[4] - CodeZero)>>
              \o Decoded(SubSeq(s, 5, Len(s)))
         ELSE <<s[2]>> \o Decoded(SubSeq(s, 3, Len(s)))

\* C34: unescape gives the byte for \DDD and the character itself for a
\* backslash before any other character, and drops no other character, also
\* when a digit after the backslash is followed by non-digits or by fewer
\* than two characters.
C34_UnescapeDropsNothing ==
    text.pc = "done" => text.unescaped = Decoded(text.escaped)

\* The text \1\009: the backslash, the 1, the second backslash and a 0 are
\* read as one escape and dropped.
C34_Witness ==
    /\ text.pc = "done"
    /\ text.escaped = <<CodeBackslash, 49, CodeBackslash, CodeZero, CodeZero, 57>>
    /\ text.unescaped = <<CodeZero, 57>>
    /\ Decoded(text.escaped) = <<49, 9>>


-----------------------------------------------------------------------------
(* The partition of the targets among the workers *)

\* The places (worker, position) at which the request lists hold target i.
PlacesOf(i) ==
    {<<t, pos>> \in (1..Len(requests)) \X (1..MaxTargets) :
        pos <= Len(requests[t]) /\ requests[t][pos] = i}

\* The partition made and pass p joined.
PassJoined(p) ==
    /\ Len(args.local_config) >= 1
    /\ \/ main.pc \in {"sleep", "exit", "exited"} /\ p <= main.pass
       \/ main.pc \in {"spawn", "join"} /\ p < main.pass

\* C35: for every target count n >= 1 and every thread_ct the command line
\* accepts, each target is in exactly one request list, no list is longer
\* than ceil(n / thread_ct), and every pass that was joined audited each
\* target exactly once.
C35_EveryTargetOnce ==
    \A p \in 1..MaxPasses :
        PassJoined(p) =>
            LET n == Len(args.local_config)
            IN  /\ \A i \in 1..n : Cardinality(PlacesOf(i)) = 1
                /\ \A t \in 1..Len(requests) :
                      Len(requests[t]) * args.thread_ct < n + args.thread_ct
                /\ \A i \in 1..n :
                      Cardinality({h \in history : h.pass = p /\ h.target = i}) = 1

\* --threads 0 with two targets: no request list, no audit, exit status 0.
C35_Witness ==
    /\ main.exited
    /\ args.thread_ct = 0
    /\ Len(args.local_config) = 2
    /\ requests = <<>>
    /\ history = {}
    /\ main.status = 0


-----------------------------------------------------------------------------
(* The performance test: who writes which zone, and when it returns *)

\* The threads whose list holds zone z, counted with the places in the list.
OwnersOf(z) ==
    {<<t, i>> \in (1..Len(perf.threads)) \X (1..Cardinality(DOMAIN root_addr)) :
        i <= Len(perf.threads[t].list) /\ perf.threads[t].list[i] = z}

\* Thread t is working on zone z.
AtZone(t, z) ==
    /\ perf.threads[t].zi <= Len(perf.threads[t].list)
    /\ perf.threads[t].list[perf.threads[t].zi] = z

-----------------------------------------------------------------------------
(* The result of an audit: success, flags and reasons move together *)

\* C37: at every point of an audit, and in the result it returns, success
\* is true exactly when no flag has been raised, and there are as many
\* reasons as flags.
C37_SuccessIffNoFlag ==
    audit.pc # "none" =>
        /\ audit.rval.success <=> (audit.rval.flags = <<>>)
        /\ Len(audit.rval.reason) = Len(audit.rval.flags)

\* A returned result with two different flags raised, and no success.
C37_Witness ==
    /\ audit.pc = "returned"
    /\ ~audit.rval.success
    /\ HasFlag(audit.rval, "AuthoratativeFail")
    /\ HasFlag(audit.rval, "ResolveIpNotMatch")
    /\ Len(audit.rval.reason) = Len(audit.rval.flags)

\* A returned result with no flag, a success.
C37_WitnessSuccess ==
    /\ audit.pc = "returned"
    /\ audit.rval.success
    /\ audit.rval.flags = <<>>
    /\ audit.rval.reason = <<>>
    /\ audit.me.ns.some


-----------------------------------------------------------------------------
(* The referral: what it leaves in the index *)

\* C38: no zone inserted by get_nameservers_and_resolve has an empty server
\* list, and no call answered from the index without a query returns an
\* empty list.
C38_NoEmptyZoneInserted ==
    /\ \A Z \in learned : root_addr[Z].servers # <<>>
    /\ (call.op = "get_nameservers_and_resolve" /\ call.ret.ok /\ call.sent = <<>>)
          => call.ret.entry.servers # <<>>

\* A zone learned with no server by an earlier call, returned from the
\* index by this one, no query sent.
C38_Witness ==
    /\ call.op = "get_nameservers_and_resolve"
    /\ call.ret.ok
    /\ call.sent = <<>>
    /\ call.inserted = {}
    /\ call.ret.entry.servers = <<>>
    /\ call.ret.entry.zone_name \in learned
    /\ root_addr[call.ret.entry.zone_name].servers = <<>>

\* The inserting call itself: a NOERROR reply with an empty authority
\* section, the new zone in the index with no server.
C38_WitnessInsert ==
    /\ Referred
    /\ call.net.reply.authority = <<>>
    /\ call.ret.entry.servers = <<>>
    /\ \E Z \in call.inserted : root_addr[Z].servers = <<>>

=============================================================================
